---- MODULE Spec2Model ----
(***************************************************************************)
(* A model of the HiPACE++ per-slice quasi-static loop and its             *)
(* longitudinal pipeline.                                                  *)
(*                                                                         *)
(*   Spec       the z-pipeline: every rank of the z communicator runs      *)
(*              Hipace::Evolve (Wait, the slice loop, Notify) and then     *)
(*              its destructor; MPI point-to-point messages are in flight  *)
(*              in per-sender FIFO channels.                               *)
(*   SpecShift  Fields::ShiftSlices applied to an arbitrary slice store.   *)
(*   SpecPC     Hipace::PredictorCorrectorLoopToSolveBxBy, its control     *)
(*              flow driven by the relative B-field errors.                *)
(*   SpecMG     MultiGrid::solve_doit, its control flow driven by the      *)
(*              residual norms.                                            *)
(***************************************************************************)
EXTENDS Integers, Sequences, FiniteSets, TLC

VARIABLES
    cfg,            \* run configuration (numprocs_z, max_step, box layout ...)
    pc,             \* pc[r]: where rank r is in Evolve / ~Hipace
    step,           \* step[r]: the loop variable of Evolve
    ibox,           \* ibox[r]: position of the reverse iterator in index_array
    islice,         \* islice[r]: the slice loop variable
    slices,         \* slices[r]: the slice store (role -> component -> value)
    m_send_buffer,  \* m_send_buffer[r]: 0 is nullptr, n > 0 is heap[r][n]
    m_send_request, \* m_send_request[r]: 0 is no request, n > 0 the n-th Isend
    heap,           \* heap[r]: the pinned-arena send buffers rank r allocated
    chan,           \* chan[r]: messages sent by rank r, not yet received
    reqDone,        \* reqDone[r]: the send requests of rank r MPI has completed
    zlog,           \* zlog[r]: what rank r did in its current time step
    matched,        \* the matched Send/Recv pairs of the run so far
    aborted,        \* amrex::Abort was called (MPI_Abort ends every rank)
    pre,            \* SpecShift: the slice store before the call
    pcl,            \* SpecPC: the state of the predictor-corrector loop
    mg,             \* SpecMG: the state of the multigrid solve
    ats,            \* SpecDt: the state of the adaptive time step
    dec,            \* SpecStartup: the process grid and the box decomposition
    tile            \* SpecBoxSort, SpecSliceSort: the particle tiles being sorted

pipeVars == <<cfg, pc, step, ibox, islice, slices, m_send_buffer, m_send_request,
              heap, chan, reqDone, zlog, matched, aborted>>
vars == <<cfg, pc, step, ibox, islice, slices, m_send_buffer, m_send_request,
          heap, chan, reqDone, zlog, matched, aborted, pre, pcl, mg, ats, dec, tile>>

----------------------------------------------------------------------------
(* Bounds of the model *)

MaxProcsZ == 3        \* numprocs_z ranges over 1..MaxProcsZ
MaxStep == 2          \* max_step ranges over 0..MaxStep
MaxSlicesLocal == 4   \* nboxes_z_local * grid_size_z, the slices of a rank, is at most this
MaxWork == 12         \* numprocs_z * max_step * (slices of a rank) is at most this
MaxSlicePoints == 1   \* bx.numPts() of the slice box ranges over 1..MaxSlicePoints

(* Program constants *)

comm_z_tag == 1000

----------------------------------------------------------------------------
(* Helpers *)

Last(s) == s[Len(s)]

Max(a, b) == IF a >= b THEN a ELSE b

CountOp(l, o) == Cardinality({i \in DOMAIN l : l[i].op = o})

Ranks == 0 .. (cfg.numprocs_z - 1)

----------------------------------------------------------------------------
(* The slice store: Fields::AllocData registers the components of each     *)
(* role once; every array starts at zero.                                  *)

Roles == {"Next", "This", "Previous1", "Previous2", "RhoIons", "Salame"}

Comps(explicit, role) ==
    IF explicit
    THEN CASE role = "Next" -> {"jx_beam", "jy_beam"}
           [] role = "This" -> {"chi", "Sy", "Sx", "ExmBy", "EypBx", "Ez", "Bx", "By",
                                "Bz", "Psi", "jx_beam", "jy_beam", "jz_beam",
                                "rho_beam", "jx", "jy", "jz", "rho"}
           [] role = "Previous1" -> {"jx_beam", "jy_beam"}
           [] role = "Previous2" -> {}
           [] role = "RhoIons" -> {"rho"}
           [] OTHER -> {}
    ELSE CASE role = "Next" -> {"jx", "jy"}
           [] role = "This" -> {"ExmBy", "EypBx", "Ez", "Bx", "By", "Bz", "Psi",
                                "jx", "jy", "jz", "rho"}
           [] role = "Previous1" -> {"Bx", "By", "jx", "jy"}
           [] role = "Previous2" -> {"Bx", "By"}
           [] role = "RhoIons" -> {"rho"}
           [] OTHER -> {}

AllocData(explicit) == [role \in Roles |-> [c \in Comps(explicit, role) |-> 0]]

(* Fields::shift(lev, dst, src, comps...): dst takes the named components  *)
(* of src.                                                                 *)
shift(S, dst, src, comps) ==
    [S EXCEPT ![dst] = [c \in DOMAIN S[dst] |->
                           IF c \in comps THEN S[src][c] ELSE S[dst][c]]]

(* Fields::duplicate(lev, src, src_comps, dst, dst_comps): the i-th        *)
(* destination component takes the i-th source component, in order.        *)
RECURSIVE duplicate(_, _, _, _, _)
duplicate(S, src, src_comps, dst, dst_comps) ==
    IF src_comps = <<>> THEN S
    ELSE duplicate([S EXCEPT ![dst][Head(dst_comps)] = S[src][Head(src_comps)]],
                   src, Tail(src_comps), dst, Tail(dst_comps))

(* a faulty variant: the predictor-corrector mode also copies jx and jy of *)
(* This to Next                                                            *)
ShiftSlices_DuplicatesToNext(S, explicit) ==
    IF explicit
    THEN duplicate(shift(S, "Previous1", "This", {"jx_beam", "jy_beam"}),
                   "This", <<"jx_beam", "jy_beam", "jx", "jy">>,
                   "Next", <<"jx_beam", "jy_beam", "jx_beam", "jy_beam">>)
    ELSE shift(shift(shift(S, "Previous2", "Previous1", {"Bx", "By"}),
                     "Previous1", "This", {"Bx", "By", "jx", "jy"}),
               "Next", "This", {"jx", "jy"})

(* a faulty variant: the two shifts of the predictor-corrector mode in the *)
(* other order                                                            *)
ShiftSlices_SwappedOrder(S, explicit) ==
    IF explicit
    THEN duplicate(shift(S, "Previous1", "This", {"jx_beam", "jy_beam"}),
                   "This", <<"jx_beam", "jy_beam", "jx", "jy">>,
                   "Next", <<"jx_beam", "jy_beam", "jx_beam", "jy_beam">>)
    ELSE shift(shift(S, "Previous1", "This", {"Bx", "By", "jx", "jy"}),
               "Previous2", "Previous1", {"Bx", "By"})

ShiftSlices(S, explicit) ==
    IF explicit
    THEN duplicate(shift(S, "Previous1", "This", {"jx_beam", "jy_beam"}),
                   "This", <<"jx_beam", "jy_beam", "jx", "jy">>,
                   "Next", <<"jx_beam", "jy_beam", "jx_beam", "jy_beam">>)
    ELSE shift(shift(S, "Previous2", "Previous1", {"Bx", "By"}),
               "Previous1", "This", {"Bx", "By", "jx", "jy"})

----------------------------------------------------------------------------
(* The box layout: Hipace::PostProcessBaseGrids cuts the domain into       *)
(* nboxes_z boxes of grid_size_z slices, Hipace::MakeNewLevelFromScratch   *)
(* gives box k to rank k / nboxes_z_local (numprocs_x = numprocs_y = 1).   *)

nboxes_z == cfg.numprocs_z * cfg.nboxes_z_local

procmap(k) == k \div cfg.nboxes_z_local

smallEnd(k) == k * cfg.grid_size_z

bigEnd(k) == (k + 1) * cfg.grid_size_z - 1

(* a faulty variant: the boxes in decreasing index, so that the reverse    *)
(* iteration of Evolve visits them lowest first                            *)
IndexArray_Descending(r) ==
    LET S == {k \in 0 .. (nboxes_z - 1) : procmap(k) = r}
    IN  [i \in 1 .. Cardinality(S) |->
            CHOOSE k \in S : Cardinality({j \in S : j > k}) = i - 1]

(* fields.IndexArray(): the boxes of rank r, in increasing box index *)
IndexArray(r) ==
    LET S == {k \in 0 .. (nboxes_z - 1) : procmap(k) = r}
    IN  [i \in 1 .. Cardinality(S) |->
            CHOOSE k \in S : Cardinality({j \in S : j < k}) = i - 1]

(* the slices rank r owns *)
SlicesOf(r) ==
    UNION {smallEnd(IndexArray(r)[i]) .. bigEnd(IndexArray(r)[i]) : i \in DOMAIN IndexArray(r)}

----------------------------------------------------------------------------
(* Values of the slice arrays: 0 is the value AllocData sets; what is      *)
(* computed for slice k in step s is Tok(s, k).                            *)

Tok(s, k) == 100 * (s + 1) + k + 1

Garbage == 0 - 1

SetComps(S, role, comps, v) ==
    [S EXCEPT ![role] = [c \in DOMAIN S[role] |-> IF c \in comps THEN v ELSE S[role][c]]]

(* m_fields.Copy(FtoS): the 3-D field was set to zero at the start of the step *)
Copy_FtoS(S) == SetComps(S, "This", DOMAIN S["This"], 0)

DepositCurrent(S, role, v) == SetComps(S, role, {"jx", "jy", "jz", "rho"}, v)

SolvePoissonExmByAndEypBx(S, v) == SetComps(S, "This", {"Psi", "ExmBy", "EypBx"}, v)

SolvePoissonEz(S, v) == SetComps(S, "This", {"Ez"}, v)

SolvePoissonBz(S, v) == SetComps(S, "This", {"Bz"}, v)

(* what the predictor-corrector loop leaves behind: Bx and By of This,     *)
(* jx and jy of Next reset                                                 *)
PredictorCorrectorResult(S, v) ==
    SetComps(SetComps(S, "This", {"Bx", "By"}, v), "Next", {"jx", "jy"}, 0)

(* a faulty variant: the beam current of the slice is deposited before    *)
(* Psi is solved                                                           *)
SlicePhases_BeamBeforePsi(slice_deposition) ==
    <<"Copy_FtoS", "AdvancePlasmaParticles", "Redistribute", "DepositCurrent",
      "SumBoundary">>
    \o (IF slice_deposition THEN <<"DepositCurrentSlice">> ELSE <<>>)
    \o <<"SolvePoissonExmByAndEypBx", "SumBoundary", "SolvePoissonEz", "SolvePoissonBz",
         "PredictorCorrectorLoopToSolveBxBy", "Copy_StoF", "ShiftSlices">>

(* the calls of one pass of the slice loop, in program order *)
SlicePhases(slice_deposition) ==
    <<"Copy_FtoS", "AdvancePlasmaParticles", "Redistribute", "DepositCurrent",
      "SumBoundary", "SolvePoissonExmByAndEypBx">>
    \o (IF slice_deposition THEN <<"DepositCurrentSlice">> ELSE <<>>)
    \o <<"SumBoundary", "SolvePoissonEz", "SolvePoissonBz",
         "PredictorCorrectorLoopToSolveBxBy", "Copy_StoF", "ShiftSlices">>

(* the calls made before amrex::Abort ends the run inside the loop *)
PhasesUntilAbort(slice_deposition) ==
    LET p == SlicePhases(slice_deposition)
    IN  SubSeq(p, 1, Len(p) - 2)

----------------------------------------------------------------------------
(* The log of a time step *)

Ev(op, k, tag, n, work) == [op |-> op, k |-> k, tag |-> tag, n |-> n, work |-> work]

E0(op) == Ev(op, 0, 0, 0, <<>>)

Log(r, evs) == [zlog EXCEPT ![r] = @ \o evs]

ZOps == {"MPI_Recv", "MPI_Wait", "MPI_Isend"}

----------------------------------------------------------------------------
(* The pipeline *)

(* a faulty variant: the top-most rank is taken to be numprocs_z *)
HasUpstream_OffByOne(r) == r /= cfg.numprocs_z

HasUpstream(r) == r /= cfg.numprocs_z - 1

HasDownstream(r) == r /= 0

(* a faulty variant: the receive is posted for the rank below *)
RecvSource_Downstream(r) == r - 1

RecvSource(r) == r + 1

SendDest(r) == r - 1

(* bx.numPts()*slice_fab2.nComp() + bx.numPts()*slice_fab3.nComp() *)
nreals_total(S) ==
    cfg.slice_points * Cardinality(DOMAIN S["Previous1"])
    + cfg.slice_points * Cardinality(DOMAIN S["Previous2"])

Configs ==
    {c \in [numprocs_z : 1 .. MaxProcsZ, max_step : 0 .. MaxStep,
            nboxes_z_local : 1 .. MaxSlicesLocal, grid_size_z : 1 .. MaxSlicesLocal,
            slice_deposition : BOOLEAN, slice_points : 1 .. MaxSlicePoints] :
        /\ c.nboxes_z_local * c.grid_size_z <= MaxSlicesLocal
        /\ c.numprocs_z * c.max_step * c.nboxes_z_local * c.grid_size_z <= MaxWork}

IdlePre == <<>>
IdlePcl == [at |-> "idle"]
IdleMg == [at |-> "idle"]
IdleAts == [at |-> "idle"]
IdleDec == [at |-> "idle"]
IdleTile == [at |-> "idle"]

(* the functions that are not running *)
IdleRest ==
    /\ ats = IdleAts
    /\ dec = IdleDec
    /\ tile = IdleTile

Init ==
    /\ cfg \in Configs
    /\ pc = [r \in Ranks |-> "Evolve"]
    /\ step = [r \in Ranks |-> 0]
    /\ ibox = [r \in Ranks |-> 0]
    /\ islice = [r \in Ranks |-> 0]
    /\ slices = [r \in Ranks |-> AllocData(FALSE)]
    /\ m_send_buffer = [r \in Ranks |-> 0]
    /\ m_send_request = [r \in Ranks |-> 0]
    /\ heap = [r \in Ranks |-> <<>>]
    /\ chan = [r \in Ranks |-> <<>>]
    /\ reqDone = [r \in Ranks |-> {}]
    /\ zlog = [r \in Ranks |-> <<>>]
    /\ matched = {}
    /\ aborted = FALSE
    /\ pre = IdlePre
    /\ pcl = IdlePcl
    /\ mg = IdleMg
    /\ IdleRest

(* for (int step = 0; step < m_max_step; ++step) *)
Evolve(r) ==
    /\ ~aborted
    /\ pc[r] = "Evolve"
    /\ IF step[r] < cfg.max_step
       THEN /\ pc' = [pc EXCEPT ![r] = "Wait"]
            /\ zlog' = [zlog EXCEPT ![r] = <<>>]
       ELSE /\ pc' = [pc EXCEPT ![r] = "~Hipace"]
            /\ UNCHANGED zlog
    /\ UNCHANGED <<cfg, step, ibox, islice, slices, m_send_buffer, m_send_request,
                   heap, chan, reqDone, matched, aborted, pre, pcl, mg, ats, dec, tile>>

(* Hipace::Wait up to the point where its MPI_Recv is posted *)
Wait(r) ==
    /\ ~aborted
    /\ pc[r] = "Wait"
    /\ IF HasUpstream(r)
       THEN /\ pc' = [pc EXCEPT ![r] = "MPI_Recv"]
            /\ zlog' = Log(r, <<E0("Wait"),
                                Ev("MPI_Recv", RecvSource(r), comm_z_tag,
                                   nreals_total(slices[r]), <<>>)>>)
       ELSE /\ pc' = [pc EXCEPT ![r] = "BeamDeposit"]
            /\ zlog' = Log(r, <<E0("Wait"), E0("WaitReturn")>>)
    /\ UNCHANGED <<cfg, step, ibox, islice, slices, m_send_buffer, m_send_request,
                   heap, chan, reqDone, matched, aborted, pre, pcl, mg, ats, dec, tile>>

(* what MPI reads from a send buffer; a freed buffer may hold anything *)
BufferData(src, b) ==
    IF heap[src][b].live THEN {heap[src][b].data}
    ELSE {heap[src][b].data, [p1 |-> [c \in DOMAIN heap[src][b].data.p1 |-> Garbage],
                              p2 |-> [c \in DOMAIN heap[src][b].data.p2 |-> Garbage]]}

RemoveAt(s, i) == SubSeq(s, 1, i - 1) \o SubSeq(s, i + 1, Len(s))

(* a faulty variant: the newest of the matching messages is received *)
MatchFirst_Newest(idx) == CHOOSE j \in idx : \A j2 \in idx : j >= j2

(* MPI matches the messages of one sender, communicator and tag in the     *)
(* order in which they were sent                                           *)
MatchFirst(idx) == CHOOSE j \in idx : \A j2 \in idx : j <= j2

(* the blocking MPI_Recv of Hipace::Wait returns: the message is matched   *)
(* and copied into slices 2 and 3                                          *)
MPI_Recv(r) ==
    /\ ~aborted
    /\ pc[r] = "MPI_Recv"
    /\ LET src == RecvSource(r)
       IN  /\ src \in Ranks
           /\ LET idx == {i \in DOMAIN chan[src] :
                            chan[src][i].dst = r /\ chan[src][i].tag = comm_z_tag}
              IN  /\ idx /= {}
                  /\ LET i == MatchFirst(idx)
                         m == chan[src][i]
                     IN  \E d \in (IF m.copied THEN {m.data} ELSE BufferData(src, m.buf)) :
                           /\ chan' = [chan EXCEPT ![src] = RemoveAt(@, i)]
                           /\ reqDone' = [reqDone EXCEPT ![src] = @ \cup {m.seq}]
                           /\ slices' = [slices EXCEPT ![r]["Previous1"] = d.p1,
                                                       ![r]["Previous2"] = d.p2]
                           /\ matched' = matched \cup
                                {[src |-> src, dst |-> r, tag |-> m.tag, seq |-> m.seq,
                                  scount |-> m.count,
                                  rcount |-> nreals_total(slices[r])]}
                           /\ zlog' = Log(r, <<E0("WaitReturn")>>)
    /\ pc' = [pc EXCEPT ![r] = "BeamDeposit"]
    /\ UNCHANGED <<cfg, step, ibox, islice, m_send_buffer, m_send_request,
                   heap, aborted, pre, pcl, mg, ats, dec, tile>>

(* MPI completes a standard-mode send early by copying the message out of  *)
(* the send buffer                                                         *)
MPI_Progress(r) ==
    /\ ~aborted
    /\ \E i \in DOMAIN chan[r] :
         /\ ~chan[r][i].copied
         /\ \E d \in BufferData(r, chan[r][i].buf) :
              chan' = [chan EXCEPT ![r][i].copied = TRUE, ![r][i].data = d]
         /\ reqDone' = [reqDone EXCEPT ![r] = @ \cup {chan[r][i].seq}]
    /\ UNCHANGED <<cfg, pc, step, ibox, islice, slices, m_send_buffer, m_send_request,
                   heap, zlog, matched, aborted, pre, pcl, mg, ats, dec, tile>>

(* m_fields.getF(lev).setVal(0.), the beam deposition and the set-up of    *)
(* the reverse iteration over index_array                                  *)
BeamDeposit(r) ==
    /\ ~aborted
    /\ pc[r] = "BeamDeposit"
    /\ pc' = [pc EXCEPT ![r] = "Slice"]
    /\ ibox' = [ibox EXCEPT ![r] = Len(IndexArray(r))]
    /\ islice' = [islice EXCEPT ![r] = bigEnd(IndexArray(r)[Len(IndexArray(r))])]
    /\ UNCHANGED <<cfg, step, slices, m_send_buffer, m_send_request,
                   heap, chan, reqDone, zlog, matched, aborted, pre, pcl, mg, ats, dec, tile>>

(* a faulty variant: Wait is called again before every further slice of a box *)
NextSlice_WaitInLoop(r) ==
    IF islice[r] > smallEnd(IndexArray(r)[ibox[r]])
    THEN [pc |-> "Wait", ibox |-> ibox[r], islice |-> islice[r] - 1]
    ELSE IF ibox[r] > 1
         THEN [pc |-> "Slice", ibox |-> ibox[r] - 1,
               islice |-> bigEnd(IndexArray(r)[ibox[r] - 1])]
         ELSE [pc |-> "Notify", ibox |-> 0, islice |-> islice[r]]

(* the slice loop advances: --islice inside the box, then ++it *)
NextSlice(r) ==
    IF islice[r] > smallEnd(IndexArray(r)[ibox[r]])
    THEN [pc |-> "Slice", ibox |-> ibox[r], islice |-> islice[r] - 1]
    ELSE IF ibox[r] > 1
         THEN [pc |-> "Slice", ibox |-> ibox[r] - 1,
               islice |-> bigEnd(IndexArray(r)[ibox[r] - 1])]
         ELSE [pc |-> "Notify", ibox |-> 0, islice |-> islice[r]]

(* one pass of the slice loop on the slice store; every call is local to   *)
(* the rank (the collectives are on the xy communicator)                   *)
SliceWork(S, v) ==
    LET S1 == Copy_FtoS(S)
        S2 == DepositCurrent(S1, "This", v)
        S3 == SolvePoissonExmByAndEypBx(S2, v)
        S4 == SolvePoissonBz(SolvePoissonEz(S3, v), v)
        S5 == PredictorCorrectorResult(S4, v)
    IN  ShiftSlices(S5, FALSE)

(* the same pass when the predictor-corrector loop ends in amrex::Abort *)
SliceWorkAborted(S, v) ==
    LET S1 == Copy_FtoS(S)
        S2 == DepositCurrent(S1, "This", v)
        S3 == SolvePoissonExmByAndEypBx(S2, v)
        S4 == SolvePoissonBz(SolvePoissonEz(S3, v), v)
    IN  PredictorCorrectorResult(S4, v)

ProcessSlice(r) ==
    /\ ~aborted
    /\ pc[r] = "Slice"
    /\ LET k == islice[r]
           v == Tok(step[r], k)
           n == NextSlice(r)
       IN  \E diverged \in BOOLEAN :
             IF diverged
             THEN /\ aborted' = TRUE
                  /\ slices' = [slices EXCEPT ![r] = SliceWorkAborted(@, v)]
                  /\ zlog' = Log(r, <<Ev("SliceBegin", k, 0, 0, <<>>),
                                      Ev("Abort", k, 0, 0,
                                         PhasesUntilAbort(cfg.slice_deposition))>>)
                  /\ UNCHANGED <<pc, ibox, islice>>
             ELSE /\ slices' = [slices EXCEPT ![r] = SliceWork(@, v)]
                  /\ zlog' = Log(r, <<Ev("SliceBegin", k, 0, 0, <<>>),
                                      Ev("SliceEnd", k, 0, 0,
                                         SlicePhases(cfg.slice_deposition))>>)
                  /\ pc' = [pc EXCEPT ![r] = n.pc]
                  /\ ibox' = [ibox EXCEPT ![r] = n.ibox]
                  /\ islice' = [islice EXCEPT ![r] = n.islice]
                  /\ UNCHANGED aborted
    /\ UNCHANGED <<cfg, step, m_send_buffer, m_send_request,
                   heap, chan, reqDone, matched, pre, pcl, mg, ats, dec, tile>>

(* a faulty variant: Notify does not finish the previous send *)
Notify_NoFinish(r) ==
    /\ ~aborted
    /\ pc[r] = "Notify"
    /\ IF HasDownstream(r)
       THEN /\ pc' = [pc EXCEPT ![r] = "Notify.MPI_Isend"]
            /\ zlog' = Log(r, <<E0("Notify")>>)
            /\ UNCHANGED step
       ELSE /\ pc' = [pc EXCEPT ![r] = "Evolve"]
            /\ zlog' = Log(r, <<E0("Notify"), E0("NotifyReturn")>>)
            /\ step' = [step EXCEPT ![r] = @ + 1]
    /\ UNCHANGED <<cfg, ibox, islice, slices, m_send_buffer, m_send_request,
                   heap, chan, reqDone, matched, aborted, pre, pcl, mg, ats, dec, tile>>

(* Hipace::Notify up to its call of NotifyFinish *)
Notify(r) ==
    /\ ~aborted
    /\ pc[r] = "Notify"
    /\ IF HasDownstream(r)
       THEN /\ pc' = [pc EXCEPT ![r] = "Notify.NotifyFinish"]
            /\ zlog' = Log(r, <<E0("Notify")>>)
            /\ UNCHANGED step
       ELSE /\ pc' = [pc EXCEPT ![r] = "Evolve"]
            /\ zlog' = Log(r, <<E0("Notify"), E0("NotifyReturn")>>)
            /\ step' = [step EXCEPT ![r] = @ + 1]
    /\ UNCHANGED <<cfg, ibox, islice, slices, m_send_buffer, m_send_request,
                   heap, chan, reqDone, matched, aborted, pre, pcl, mg, ats, dec, tile>>

Free(h, b) == [h EXCEPT ![b].live = FALSE, ![b].frees = @ + 1]

(* Hipace::NotifyFinish, called by Notify and by the destructor: MPI_Wait  *)
(* blocks until the request is complete                                    *)
NotifyFinish(r) ==
    /\ ~aborted
    /\ pc[r] \in {"Notify.NotifyFinish", "~Hipace.NotifyFinish"}
    /\ IF HasDownstream(r) /\ m_send_buffer[r] /= 0
       THEN /\ m_send_request[r] \in reqDone[r]
            /\ heap' = [heap EXCEPT ![r] = [Free(@, m_send_buffer[r])
                                              EXCEPT ![m_send_buffer[r]].waited = TRUE]]
            /\ m_send_buffer' = [m_send_buffer EXCEPT ![r] = 0]
            /\ m_send_request' = [m_send_request EXCEPT ![r] = 0]
            /\ zlog' = IF pc[r] = "Notify.NotifyFinish"
                       THEN Log(r, <<Ev("MPI_Wait", 0, 0, 0, <<>>)>>)
                       ELSE zlog
       ELSE UNCHANGED <<heap, m_send_buffer, m_send_request, zlog>>
    /\ pc' = [pc EXCEPT ![r] = IF pc[r] = "Notify.NotifyFinish"
                               THEN "Notify.MPI_Isend" ELSE "Finalized"]
    /\ UNCHANGED <<cfg, step, ibox, islice, slices, chan, reqDone, matched,
                   aborted, pre, pcl, mg, ats, dec, tile>>

(* the rest of Hipace::Notify: allocate m_send_buffer, copy slices 2 and 3 *)
(* into it, MPI_Isend                                                      *)
Notify_Isend(r) ==
    /\ ~aborted
    /\ pc[r] = "Notify.MPI_Isend"
    /\ LET b == Len(heap[r]) + 1
           d == [p1 |-> slices[r]["Previous1"], p2 |-> slices[r]["Previous2"]]
           n == nreals_total(slices[r])
       IN  /\ heap' = [heap EXCEPT ![r] =
                         Append(@, [live |-> TRUE, frees |-> 0, data |-> d,
                                    sent |-> TRUE, waited |-> FALSE])]
           /\ m_send_buffer' = [m_send_buffer EXCEPT ![r] = b]
           /\ m_send_request' = [m_send_request EXCEPT ![r] = b]
           /\ chan' = [chan EXCEPT ![r] =
                         Append(@, [dst |-> SendDest(r), tag |-> comm_z_tag, count |-> n,
                                    seq |-> b, buf |-> b, copied |-> FALSE, data |-> d])]
           /\ zlog' = Log(r, <<Ev("MPI_Isend", SendDest(r), comm_z_tag, n, <<>>),
                               E0("NotifyReturn")>>)
    /\ pc' = [pc EXCEPT ![r] = "Evolve"]
    /\ step' = [step EXCEPT ![r] = @ + 1]
    /\ UNCHANGED <<cfg, ibox, islice, slices, reqDone, matched, aborted, pre, pcl, mg, ats, dec, tile>>

(* Hipace::~Hipace up to its call of NotifyFinish *)
Destructor(r) ==
    /\ ~aborted
    /\ pc[r] = "~Hipace"
    /\ pc' = [pc EXCEPT ![r] = "~Hipace.NotifyFinish"]
    /\ UNCHANGED <<cfg, step, ibox, islice, slices, m_send_buffer, m_send_request,
                   heap, chan, reqDone, zlog, matched, aborted, pre, pcl, mg, ats, dec, tile>>

Next ==
    \/ \E r \in Ranks : Evolve(r)
    \/ \E r \in Ranks : Wait(r)
    \/ \E r \in Ranks : MPI_Recv(r)
    \/ \E r \in Ranks : MPI_Progress(r)
    \/ \E r \in Ranks : BeamDeposit(r)
    \/ \E r \in Ranks : ProcessSlice(r)
    \/ \E r \in Ranks : Notify(r)
    \/ \E r \in Ranks : NotifyFinish(r)
    \/ \E r \in Ranks : Notify_Isend(r)
    \/ \E r \in Ranks : Destructor(r)

Spec == Init /\ [][Next]_vars

----------------------------------------------------------------------------
(* Properties of the pipeline (Spec) *)

StepComplete(r) == zlog[r] /= <<>> /\ Last(zlog[r]).op = "NotifyReturn"

IsSliceEv(e) == e.op \in {"SliceBegin", "SliceEnd", "Abort"}

AllFinalized == \A r \in Ranks : pc[r] = "Finalized"

(* C1: in every time step a rank calls Wait once, before any slice, and    *)
(* Notify once, after its last slice; every receive, send or wait on the z *)
(* communicator lies inside that Wait or that Notify, never between them.  *)
C1_OneWaitOneNotifyPerStep ==
    \A r \in Ranks :
        LET l == zlog[r]
        IN  /\ CountOp(l, "Wait") <= 1
            /\ CountOp(l, "Notify") <= 1
            /\ l /= <<>> => l[1].op = "Wait"
            /\ \A i \in DOMAIN l :
                 /\ IsSliceEv(l[i]) =>
                       /\ \E j \in 1 .. (i - 1) : l[j].op = "WaitReturn"
                       /\ \A j \in 1 .. (i - 1) : l[j].op /= "Notify"
                 /\ l[i].op \in ZOps =>
                       \/ \A j \in 1 .. (i - 1) : l[j].op /= "WaitReturn"
                       \/ \E j \in 1 .. (i - 1) : l[j].op = "Notify"
            /\ StepComplete(r) =>
                 /\ CountOp(l, "Wait") = 1
                 /\ CountOp(l, "Notify") = 1
                 /\ {l[i].k : i \in {j \in DOMAIN l : l[j].op = "SliceEnd"}} = SlicesOf(r)

(* a rank with an upstream and a downstream neighbour has completed a step *)
(* in which it received, waited for its previous send and sent             *)
C1_Witness ==
    \E r \in Ranks :
        /\ StepComplete(r)
        /\ CountOp(zlog[r], "MPI_Recv") = 1
        /\ CountOp(zlog[r], "MPI_Wait") = 1
        /\ CountOp(zlog[r], "MPI_Isend") = 1
        /\ CountOp(zlog[r], "SliceEnd") >= 2

ExpectedCount ==
    cfg.slice_points * (Cardinality(Comps(FALSE, "Previous1"))
                        + Cardinality(Comps(FALSE, "Previous2")))

(* C2: in every step every rank but the top-most posts one receive from    *)
(* rank_z+1 and every rank but the bottom-most one send to rank_z-1, with  *)
(* tag 1000; the top-most never receives, the bottom-most never sends; a   *)
(* complete run has max_step*(numprocs_z-1) matched pairs, each of         *)
(* slice_points*(ncomp2+ncomp3) reals on both sides.                       *)
C2_PipelineMessages ==
    /\ \A r \in Ranks :
         LET l == zlog[r]
         IN  /\ \A i \in DOMAIN l :
                  /\ l[i].op = "MPI_Recv" =>
                        /\ r /= cfg.numprocs_z - 1
                        /\ l[i].k = r + 1 /\ l[i].tag = 1000 /\ l[i].n = ExpectedCount
                  /\ l[i].op = "MPI_Isend" =>
                        /\ r /= 0
                        /\ l[i].k = r - 1 /\ l[i].tag = 1000 /\ l[i].n = ExpectedCount
             /\ CountOp(l, "MPI_Recv") <= 1
             /\ CountOp(l, "MPI_Isend") <= 1
             /\ StepComplete(r) =>
                  /\ CountOp(l, "MPI_Recv") = (IF r /= cfg.numprocs_z - 1 THEN 1 ELSE 0)
                  /\ CountOp(l, "MPI_Isend") = (IF r /= 0 THEN 1 ELSE 0)
    /\ \A m \in matched :
         /\ m.src = m.dst + 1 /\ m.tag = 1000
         /\ m.scount = ExpectedCount /\ m.rcount = ExpectedCount
    /\ AllFinalized =>
         /\ Cardinality(matched) = cfg.max_step * (cfg.numprocs_z - 1)
         /\ \A r \in Ranks : chan[r] = <<>>

(* a complete run of three ranks and two steps *)
C2_Witness ==
    /\ AllFinalized
    /\ cfg.numprocs_z = 3 /\ cfg.max_step = 2
    /\ Cardinality(matched) = 4

Outstanding(r) == {b \in DOMAIN heap[r] : heap[r][b].sent /\ ~heap[r][b].waited}

LiveBuffers(r) == {b \in DOMAIN heap[r] : heap[r][b].live}

(* C3: a rank has at most one send whose MPI_Wait has not returned; the    *)
(* buffer of such a send, and of any message MPI has not read yet, is      *)
(* allocated and was never freed; at most one send buffer is allocated at  *)
(* a time; no buffer is freed twice, and once the destructor has run every *)
(* buffer was freed exactly once.                                          *)
C3_SendBufferOwnership ==
    \A r \in Ranks :
        /\ Cardinality(Outstanding(r)) <= 1
        /\ Cardinality(LiveBuffers(r)) <= 1
        /\ \A b \in DOMAIN heap[r] :
             /\ heap[r][b].frees <= 1
             /\ b \in Outstanding(r) => heap[r][b].live /\ heap[r][b].frees = 0
             /\ heap[r][b].live => b = m_send_buffer[r]
        /\ \A i \in DOMAIN chan[r] :
             ~chan[r][i].copied => heap[r][chan[r][i].buf].live
        /\ pc[r] = "Finalized" => \A b \in DOMAIN heap[r] : heap[r][b].frees = 1

(* a rank has finished a run in which it allocated two send buffers *)
C3_Witness ==
    \E r \in Ranks : pc[r] = "Finalized" /\ Len(heap[r]) = 2

MaxSliceOf(r) == CHOOSE k \in SlicesOf(r) : \A j \in SlicesOf(r) : j <= k

WorkDone == {"DepositCurrent", "SolvePoissonExmByAndEypBx", "SolvePoissonEz",
             "SolvePoissonBz", "PredictorCorrectorLoopToSolveBxBy",
             "AdvancePlasmaParticles"}

(* C4: within a time step the slices of a rank are processed one after the *)
(* other from the highest index down, each exactly once, also across the   *)
(* boxes of the rank; a slice has done its deposit, solve and push work    *)
(* when the next lower one begins.                                         *)
C4_SlicesInDecreasingOrder ==
    \A r \in Ranks :
        LET se == SelectSeq(zlog[r], IsSliceEv)
        IN  /\ \A i \in DOMAIN se :
                 IF i % 2 = 1
                 THEN /\ se[i].op = "SliceBegin"
                      /\ se[i].k = MaxSliceOf(r) - ((i - 1) \div 2)
                 ELSE /\ se[i].op \in {"SliceEnd", "Abort"}
                      /\ se[i].k = se[i - 1].k
                      /\ se[i].op = "SliceEnd" =>
                           WorkDone \subseteq {se[i].work[j] : j \in DOMAIN se[i].work}
                      /\ se[i].op = "Abort" => i = Len(se)
            /\ StepComplete(r) =>
                 /\ Len(se) = 2 * Cardinality(SlicesOf(r))
                 /\ \A i \in DOMAIN se : se[i].op /= "Abort"

(* a rank with two boxes of two slices has completed its second step *)
C4_Witness ==
    \E r \in Ranks :
        /\ StepComplete(r)
        /\ step[r] = 2
        /\ cfg.nboxes_z_local = 2 /\ cfg.grid_size_z = 2

----------------------------------------------------------------------------
(* SpecShift: Fields::ShiftSlices on an arbitrary slice store.             *)

IdleCfg ==
    [numprocs_z |-> 1, max_step |-> 0, nboxes_z_local |-> 1, grid_size_z |-> 1,
     slice_deposition |-> FALSE, slice_points |-> 1]

(* the pipeline at rest, for the specifications of single functions *)
IdlePipe ==
    /\ cfg = IdleCfg
    /\ pc = [r \in Ranks |-> "Finalized"]
    /\ step = [r \in Ranks |-> 0]
    /\ ibox = [r \in Ranks |-> 0]
    /\ islice = [r \in Ranks |-> 0]
    /\ m_send_buffer = [r \in Ranks |-> 0]
    /\ m_send_request = [r \in Ranks |-> 0]
    /\ heap = [r \in Ranks |-> <<>>]
    /\ chan = [r \in Ranks |-> <<>>]
    /\ reqDone = [r \in Ranks |-> {}]
    /\ zlog = [r \in Ranks |-> <<>>]
    /\ matched = {}
    /\ aborted = FALSE

(* the components ShiftSlices reads or writes, and those of the roles it   *)
(* must leave alone, take every value of CellValues; the others are zero   *)
CellValues == {1, 2}

Shifted(explicit, role) ==
    IF role = "This"
    THEN (IF explicit THEN {"jx_beam", "jy_beam", "jx", "jy"} ELSE {"Bx", "By", "jx", "jy"})
    ELSE Comps(explicit, role)

VarCells(explicit) ==
    UNION {{<<role, c>> : c \in Shifted(explicit, role)} : role \in Roles}

StoreOf(explicit, f) ==
    [role \in Roles |->
        [c \in Comps(explicit, role) |->
            IF <<role, c>> \in DOMAIN f THEN f[<<role, c>>] ELSE 0]]

InitShift ==
    /\ IdlePipe
    /\ \E e \in BOOLEAN :
         \E f \in [VarCells(e) -> CellValues] :
            pre = [at |-> "before", explicit |-> e, S |-> StoreOf(e, f)]
    /\ slices = [r \in Ranks |-> pre.S]
    /\ pcl = IdlePcl
    /\ mg = IdleMg
    /\ IdleRest

(* m_fields.ShiftSlices(lev) *)
ShiftSlicesCall ==
    /\ pre.at = "before"
    /\ slices' = [slices EXCEPT ![0] = ShiftSlices(@, pre.explicit)]
    /\ pre' = [pre EXCEPT !.at = "after"]
    /\ UNCHANGED <<cfg, pc, step, ibox, islice, m_send_buffer, m_send_request,
                   heap, chan, reqDone, zlog, matched, aborted, pcl, mg, ats, dec, tile>>

NextShift == ShiftSlicesCall

SpecShift == InitShift /\ [][NextShift]_vars

(* C8: in predictor-corrector mode, after ShiftSlices Previous2 holds the  *)
(* Bx, By that Previous1 held before the call, Previous1 holds the Bx, By, *)
(* jx, jy that This held before the call, and Next, RhoIons and Salame are *)
(* as before.                                                              *)
C8_ShiftSlicesRotates ==
    (pre.at = "after" /\ ~pre.explicit) =>
        /\ \A c \in {"Bx", "By"} :
             slices[0]["Previous2"][c] = pre.S["Previous1"][c]
        /\ \A c \in {"Bx", "By", "jx", "jy"} :
             slices[0]["Previous1"][c] = pre.S["This"][c]
        /\ \A role \in {"Next", "RhoIons", "Salame"} :
             slices[0][role] = pre.S[role]

(* a call in predictor-corrector mode on a store whose three slices hold   *)
(* different Bx                                                            *)
C8_Witness ==
    /\ pre.at = "after" /\ ~pre.explicit
    /\ pre.S["This"]["Bx"] /= pre.S["Previous1"]["Bx"]
    /\ pre.S["Previous1"]["Bx"] /= pre.S["Previous2"]["Bx"]
    /\ pre.S["Next"]["jx"] /= pre.S["This"]["jx"]

(***************************************************************************)
(* SpecPC: Hipace::PredictorCorrectorLoopToSolveBxBy.                      *)
(*                                                                         *)
(* The control flow of the loop depends on the fields only through the     *)
(* value ComputeRelBFieldError returns in each iteration, so an iteration  *)
(* is modelled by the error it produces, drawn from ErrValues.  Errors and *)
(* the tolerance are real numbers, held as hundredths (1.0 is 100).        *)
(***************************************************************************)
MaxIterBound == 3

(* relative_Bfield_error = 1.0 before the loop *)
InitialBfieldError == 100

(* the 10. of the divergence check *)
DivergenceLimit == 1000

(* values ComputeRelBFieldError may return: 0, below / at / above the      *)
(* default tolerance 0.04, 0.5, and 10, just above 10 and 20               *)
ErrValues == {0, 3, 4, 5, 50, 1000, 1001, 2000}

(* hipace.predcorr_B_error_tolerance: 0, the default 0.04, 0.5 and 1.0 *)
TolValues == {0, 4, 50, 100}

(* hipace.predcorr_max_iterations *)
MaxIterValues == 0..MaxIterBound

(* a faulty variant: one iteration more than max_iter is allowed *)
LoopCondition_OffByOne(relative_Bfield_error, tol, i_iter, max_iter) ==
    relative_Bfield_error > tol /\ i_iter <= max_iter

(* a faulty variant: the loop gives up one iteration before max_iter *)
LoopCondition_StopsEarly(relative_Bfield_error, tol, i_iter, max_iter) ==
    relative_Bfield_error > tol /\ i_iter < max_iter - 1

(* while (relative_Bfield_error > m_predcorr_B_error_tolerance             *)
(*        && i_iter < m_predcorr_max_iterations)                           *)
LoopCondition(relative_Bfield_error, tol, i_iter, max_iter) ==
    relative_Bfield_error > tol /\ i_iter < max_iter

(* a faulty variant: the limit of the divergence check is 100. *)
Diverged_WrongLimit(relative_Bfield_error) ==
    relative_Bfield_error > 10 * DivergenceLimit

(* if (relative_Bfield_error > 10.) *)
Diverged(relative_Bfield_error) ==
    relative_Bfield_error > DivergenceLimit

InitPC ==
    /\ IdlePipe
    /\ slices = [r \in Ranks |-> AllocData(FALSE)]
    /\ pre = IdlePre
    /\ mg = IdleMg
    /\ IdleRest
    /\ \E t \in TolValues, m \in MaxIterValues :
         pcl = [at |-> "start", tol |-> t, max_iter |-> m, i_iter |-> 0,
                relative_Bfield_error |-> 0, errs |-> <<>>]

PCUnchanged ==
    UNCHANGED <<cfg, pc, step, ibox, islice, slices, m_send_buffer, m_send_request,
                heap, chan, reqDone, zlog, matched, aborted, pre, mg, ats, dec, tile>>

(* int i_iter = 0; relative_Bfield_error = 1.0; *)
PC_Enter ==
    /\ pcl.at = "start"
    /\ pcl' = [pcl EXCEPT !.at = "loop", !.i_iter = 0,
                          !.relative_Bfield_error = InitialBfieldError]
    /\ PCUnchanged

(* one pass of the loop body: i_iter++, push, deposit, solve, and the      *)
(* new relative_Bfield_error; errs records the error of every iteration    *)
PC_Iterate ==
    /\ pcl.at = "loop"
    /\ LoopCondition(pcl.relative_Bfield_error, pcl.tol, pcl.i_iter, pcl.max_iter)
    /\ \E e \in ErrValues :
         pcl' = [pcl EXCEPT !.i_iter = @ + 1,
                            !.relative_Bfield_error = e,
                            !.errs = Append(@, e)]
    /\ PCUnchanged

(* the loop condition is false: end of predictor corrector loop *)
PC_LoopExit ==
    /\ pcl.at = "loop"
    /\ ~LoopCondition(pcl.relative_Bfield_error, pcl.tol, pcl.i_iter, pcl.max_iter)
    /\ pcl' = [pcl EXCEPT !.at = "after"]
    /\ PCUnchanged

(* amrex::Abort("Predictor corrector loop diverged! ...") *)
PC_Abort ==
    /\ pcl.at = "after"
    /\ Diverged(pcl.relative_Bfield_error)
    /\ pcl' = [pcl EXCEPT !.at = "aborted"]
    /\ PCUnchanged

(* the function returns; Evolve goes on to commit the slice *)
PC_Return ==
    /\ pcl.at = "after"
    /\ ~Diverged(pcl.relative_Bfield_error)
    /\ pcl' = [pcl EXCEPT !.at = "returned"]
    /\ PCUnchanged

NextPC ==
    \/ PC_Enter
    \/ PC_Iterate
    \/ PC_LoopExit
    \/ PC_Abort
    \/ PC_Return

SpecPC == InitPC /\ [][NextPC]_vars

(* the function is sequential code: a step that can be taken is taken *)
SpecPCLive == SpecPC /\ WF_vars(NextPC)

PCExited == pcl.at \in {"after", "aborted", "returned"}

PCFinished == pcl.at \in {"aborted", "returned"}

(* C5: the predictor-corrector loop terminates after at most max_iter      *)
(* iterations; when it has exited, the last relative error is <= tol or    *)
(* i_iter = max_iter; and if the error of the first iteration is <= tol,   *)
(* it exits with i_iter = 1.                                               *)
C5_LoopTerminates ==
    /\ [](/\ pcl.i_iter <= pcl.max_iter
          /\ Len(pcl.errs) = pcl.i_iter
          /\ PCExited =>
               \/ pcl.relative_Bfield_error <= pcl.tol
               \/ pcl.i_iter = pcl.max_iter
          /\ (PCExited /\ pcl.errs # <<>> /\ pcl.errs[1] <= pcl.tol) =>
               pcl.i_iter = 1)
    /\ <>PCFinished

C5_Witness ==
    /\ PCExited
    /\ pcl.max_iter > 1
    /\ pcl.i_iter = 1
    /\ pcl.errs[1] <= pcl.tol
    /\ pcl.errs[1] > 0

(* C6 as stated: if any iteration produces a relative error greater than   *)
(* 10, the function does not return normally.                              *)
C6_AbortsOnAnyError ==
    (\E k \in 1..Len(pcl.errs) : pcl.errs[k] > DivergenceLimit) =>
        pcl.at # "returned"

(* C6, amended: if the last iteration executed produces a relative error   *)
(* greater than 10, the function aborts, after at most max_iter            *)
(* iterations, and does not return normally; it aborts in no other case.   *)
C6_AbortsOnLastError ==
    /\ (pcl.errs # <<>> /\ Last(pcl.errs) > DivergenceLimit) =>
          pcl.at # "returned"
    /\ pcl.at = "aborted" =>
          /\ pcl.errs # <<>>
          /\ Last(pcl.errs) > DivergenceLimit
          /\ pcl.i_iter <= pcl.max_iter

C6_Witness ==
    /\ pcl.at = "aborted"
    /\ Len(pcl.errs) >= 2
    /\ pcl.errs[1] <= DivergenceLimit
    /\ Last(pcl.errs) > DivergenceLimit

(* C7 as stated: whenever the function returns normally, the relative      *)
(* error of the last iteration is <= the tolerance.                        *)
C7_ReturnsConverged ==
    (pcl.at = "returned" /\ pcl.errs # <<>>) =>
        Last(pcl.errs) <= pcl.tol

(* C7, amended: whenever the function returns normally, the relative error *)
(* of the last iteration is <= the tolerance, or the loop has run max_iter *)
(* iterations and that error is <= 10.                                     *)
C7_ReturnsConvergedOrExhausted ==
    (pcl.at = "returned" /\ pcl.errs # <<>>) =>
        \/ Last(pcl.errs) <= pcl.tol
        \/ /\ pcl.i_iter = pcl.max_iter
           /\ Last(pcl.errs) <= DivergenceLimit

C7_Witness ==
    /\ pcl.at = "returned"
    /\ pcl.errs # <<>>
    /\ pcl.i_iter = pcl.max_iter
    /\ Last(pcl.errs) > pcl.tol
    /\ Last(pcl.errs) <= DivergenceLimit

(***************************************************************************)
(* SpecMG: MultiGrid::solve_doit.                                          *)
(*                                                                         *)
(* The control flow depends on the arrays only through the max-norms of    *)
(* the right-hand side and of the residual, so a V-cycle is modelled by    *)
(* the residual norm computed after it, drawn from NormValues.  Norms and  *)
(* tolerances are zero or powers of ten and are held by their exponents    *)
(* (10^k is k, zero is Zero): a product is the sum of the exponents, and   *)
(* the order and std::max are those of the exponents.                      *)
(***************************************************************************)
MaxNumIter == 2

(* the number 0. *)
Zero == 0 - 1000

(* Real(1.e-16), the floor of tol_rel *)
TolRelFloor == 0 - 16

(* Real(1.e20), the factor of the divergence guard *)
DivergenceFactor == 20

(* a * b *)
Times(a, b) == IF a = Zero \/ b = Zero THEN Zero ELSE a + b

(* the max-norms: 0, 1e-6, 1e-3, 1, 1e3, 1e18, 1e21 *)
NormValues == {Zero, 0 - 6, 0 - 3, 0, 3, 18, 21}

(* tol_rel: 0, 1e-20 (below the floor), 1e-4 *)
TolRelValues == {Zero, 0 - 20, 0 - 4}

(* tol_abs: 0, 1e-6, 1e2 *)
TolAbsValues == {Zero, 0 - 6, 2}

(* nummaxiter *)
NumMaxIterValues == 0..MaxNumIter

(* max_norm: rhsnorm0 if rhsnorm0 >= resnorm0, else resnorm0 *)
max_norm(rhsnorm0, resnorm0) ==
    IF rhsnorm0 >= resnorm0 THEN rhsnorm0 ELSE resnorm0

(* std::max(tol_abs, std::max(tol_rel, Real(1.e-16)) * max_norm) *)
res_target(tol_abs, tol_rel, maxnorm) ==
    Max(tol_abs, Times(Max(tol_rel, TolRelFloor), maxnorm))

(* a faulty variant: the guard forgets the factor max_norm *)
MGDiverged_AbsoluteLimit(norminf, maxnorm) ==
    norminf > DivergenceFactor

(* norminf > Real(1.e20) * max_norm *)
MGDiverged(norminf, maxnorm) ==
    norminf > Times(DivergenceFactor, maxnorm)

InitMG ==
    /\ IdlePipe
    /\ slices = [r \in Ranks |-> AllocData(FALSE)]
    /\ pre = IdlePre
    /\ pcl = IdlePcl
    /\ IdleRest
    /\ \E tr \in TolRelValues, ta \in TolAbsValues, n \in NumMaxIterValues,
          s \in NormValues, r0 \in NormValues :
         mg = [at |-> "start", tol_rel |-> tr, tol_abs |-> ta, nummaxiter |-> n,
               rhsnorm0 |-> s, resnorm0 |-> r0, max_norm |-> Zero,
               res_target |-> Zero, iter |-> 0, norminf |-> Zero,
               converged |-> TRUE, norms |-> <<>>, msg |-> ""]

MGUnchanged ==
    UNCHANGED <<cfg, pc, step, ibox, islice, slices, m_send_buffer, m_send_request,
                heap, chan, reqDone, zlog, matched, aborted, pre, pcl, ats, dec, tile>>

(* the initial residual, resnorm0 and rhsnorm0, max_norm and res_target *)
MG_Start ==
    /\ mg.at = "start"
    /\ LET mn == max_norm(mg.rhsnorm0, mg.resnorm0)
       IN  mg' = [mg EXCEPT !.at = "target",
                            !.max_norm = mn,
                            !.res_target = res_target(mg.tol_abs, mg.tol_rel, mn)]
    /\ MGUnchanged

(* if (resnorm0 <= res_target): "No iterations needed" *)
MG_NoIterations ==
    /\ mg.at = "target"
    /\ mg.resnorm0 <= mg.res_target
    /\ mg' = [mg EXCEPT !.at = "returned"]
    /\ MGUnchanged

(* else: Real norminf = 0.; bool converged = true; iter = 0 *)
MG_EnterLoop ==
    /\ mg.at = "target"
    /\ ~(mg.resnorm0 <= mg.res_target)
    /\ mg' = [mg EXCEPT !.at = "loop", !.norminf = Zero, !.converged = TRUE,
                        !.iter = 0]
    /\ MGUnchanged

(* one pass of the for loop: vcycle(), compute_residual, norminf, the     *)
(* convergence test and the divergence guard; norms records the norm      *)
(* computed after every V-cycle                                           *)
MG_VCycle ==
    /\ mg.at = "loop"
    /\ mg.iter < mg.nummaxiter
    /\ \E n \in NormValues :
         LET conv == n <= mg.res_target
         IN  mg' = [mg EXCEPT
                      !.norminf = n,
                      !.norms = Append(@, n),
                      !.converged = conv,
                      !.at = IF conv THEN "afterloop"
                             ELSE IF MGDiverged(n, mg.max_norm) THEN "aborted"
                             ELSE "loop",
                      !.msg = IF ~conv /\ MGDiverged(n, mg.max_norm)
                              THEN "hpmg failing so lets stop here" ELSE @,
                      !.iter = IF ~conv /\ ~MGDiverged(n, mg.max_norm)
                               THEN @ + 1 ELSE @]
    /\ MGUnchanged

(* iter < nummaxiter is false: the for loop ends *)
MG_LoopEnd ==
    /\ mg.at = "loop"
    /\ ~(mg.iter < mg.nummaxiter)
    /\ mg' = [mg EXCEPT !.at = "afterloop"]
    /\ MGUnchanged

(* if (!converged) amrex::Abort("hpmg failed") *)
MG_AbortFailed ==
    /\ mg.at = "afterloop"
    /\ ~mg.converged
    /\ mg' = [mg EXCEPT !.at = "aborted", !.msg = "hpmg failed"]
    /\ MGUnchanged

(* converged is true: solve_doit returns *)
MG_Return ==
    /\ mg.at = "afterloop"
    /\ mg.converged
    /\ mg' = [mg EXCEPT !.at = "returned"]
    /\ MGUnchanged

NextMG ==
    \/ MG_Start
    \/ MG_NoIterations
    \/ MG_EnterLoop
    \/ MG_VCycle
    \/ MG_LoopEnd
    \/ MG_AbortFailed
    \/ MG_Return

SpecMG == InitMG /\ [][NextMG]_vars

(* the residual norm the solve computed last *)
LastResidualNorm == IF mg.norms = <<>> THEN mg.resnorm0 ELSE Last(mg.norms)

(* the convergence target, from the inputs of the solve *)
ResidualTarget ==
    Max(mg.tol_abs,
        Times(Max(mg.tol_rel, TolRelFloor), Max(mg.rhsnorm0, mg.resnorm0)))

(* C9 as stated: for every nummaxiter >= 0, the solve returns normally     *)
(* only if the residual norm it computed last is <= max(tol_abs,           *)
(* max(tol_rel, 1e-16) * max(|s|, |r0|)); it runs at most nummaxiter       *)
(* V-cycles, computing the residual norm once after each, and none when    *)
(* the initial residual meets the target.                                  *)
C9_ReturnsOnlyConverged ==
    /\ mg.at = "returned" => LastResidualNorm <= ResidualTarget
    /\ Len(mg.norms) <= mg.nummaxiter
    /\ mg.resnorm0 <= ResidualTarget => mg.norms = <<>>

(* the input on which C9 fails: nummaxiter = 0 and an initial residual     *)
(* above the target                                                        *)
C9_FailingInput ==
    /\ mg.at = "returned"
    /\ mg.nummaxiter = 0
    /\ mg.resnorm0 > ResidualTarget

(* C9, for nummaxiter >= 1 *)
C9_HoldsForPositiveMaxIter ==
    mg.nummaxiter >= 1 => C9_ReturnsOnlyConverged

(* C10 as stated: after a V-cycle whose residual norm exceeds 1e20 times   *)
(* the initial residual norm, the solve has aborted and runs no further    *)
(* V-cycle.                                                                *)
C10_AbortsAboveInitialResidual ==
    \A k \in 1..Len(mg.norms) :
        mg.norms[k] > Times(DivergenceFactor, mg.resnorm0) =>
            /\ k = Len(mg.norms)
            /\ mg.at = "aborted"

(* C10, amended: after a V-cycle whose residual norm exceeds 1e20 times    *)
(* the larger of the initial right-hand-side norm and the initial residual *)
(* norm, the solve has aborted and runs no further V-cycle.                *)
C10_AbortsAboveMaxNorm ==
    \A k \in 1..Len(mg.norms) :
        mg.norms[k] > Times(DivergenceFactor, Max(mg.rhsnorm0, mg.resnorm0)) =>
            /\ k = Len(mg.norms)
            /\ mg.at = "aborted"
            /\ mg.msg = "hpmg failing so lets stop here"

C10_Witness ==
    /\ mg.at = "aborted"
    /\ mg.norms # <<>>
    /\ Last(mg.norms) > Times(DivergenceFactor, Max(mg.rhsnorm0, mg.resnorm0))
    /\ Len(mg.norms) < mg.nummaxiter
    /\ mg.rhsnorm0 > mg.resnorm0

(***************************************************************************)
(* SpecDt: AdaptiveTimeStep.  GatherMinUzSlice accumulates, beam by beam,  *)
(* the weights and momenta of the particles of a slice;                    *)
(* CalculateFromMinUz turns them into the time step; CalculateFromDensity  *)
(* resets them and, with phase-advance control, truncates the time step.   *)
(*                                                                         *)
(* Real numbers are held as integers: momenta, weights, densities and      *)
(* times in natural units (c, q_e, m_e and ep0 are 1), angular frequencies *)
(* and phases in hundredths; a quotient is the integer quotient and a      *)
(* square root the integer square root.  hipace.adaptive_gather_ez is off, *)
(* so MinAcc stays 0.                                                      *)
(***************************************************************************)
MaxBeams == 2

MaxParticles == 3

MaxSubsteps == 3

(* 2 * MathConst::pi, in hundredths *)
TwoPi == 628

(* 1.e30, the largest uz supported: above every momentum of the model *)
max_supported_uz == 1000000

Min(a, b) == IF a <= b THEN a ELSE b

Abs(a) == IF a >= 0 THEN a ELSE 0 - a

RECURSIVE SqrtFrom(_, _)
SqrtFrom(n, k) == IF (k + 1) * (k + 1) > n THEN k ELSE SqrtFrom(n, k + 1)

(* std::sqrt *)
Sqrt(n) == SqrtFrom(n, 0)

(* *std::min_element(v.begin(), v.end()) *)
MinElement(v) == CHOOSE x \in {v[i] : i \in DOMAIN v} : \A i \in DOMAIN v : x <= v[i]

(* a beam particle of a slice: weight, uz and id (id < 0 is invalid) *)
BeamParticles ==
    {[w |-> 30, uz |-> 50, id |-> 1], [w |-> 1, uz |-> 2, id |-> 1],
     [w |-> 1, uz |-> 1, id |-> 0 - 1]}

(* the particles gathered so far: how many of each *)
NoParticles == [p \in BeamParticles |-> 0]

RECURSIVE AddParticles(_, _)
AddParticles(g, ps) ==
    IF ps = <<>> THEN g
    ELSE AddParticles([g EXCEPT ![Head(ps)] = @ + 1], Tail(ps))

(* the slice of a beam holds no particle or one *)
BeamSlices == {<<>>} \cup {<<p>> : p \in BeamParticles}

(* the values the constructor gives m_timestep_data[ibeam] *)
InitialTimestepData ==
    [MinUz |-> max_supported_uz, MinAcc |-> 0, SumWeights |-> 0,
     SumWeightsTimesUz |-> 0, SumWeightsTimesUzSquared |-> 0]

(* the reduction of GatherMinUzSlice over the particles of one slice *)
RECURSIVE ReduceSlice(_, _)
ReduceSlice(d, ps) ==
    IF ps = <<>> THEN d
    ELSE LET p == Head(ps)
         IN  ReduceSlice(
                 IF p.id < 0 THEN d
                 ELSE [d EXCEPT !.SumWeights = @ + p.w,
                                !.SumWeightsTimesUz = @ + p.w * p.uz,
                                !.SumWeightsTimesUzSquared = @ + p.w * p.uz * p.uz,
                                !.MinUz = Min(@, p.uz)],
                 Tail(ps))

mean_uz(d) == d.SumWeightsTimesUz \div d.SumWeights

sigma_uz(d) ==
    Sqrt(Abs(d.SumWeightsTimesUzSquared \div d.SumWeights - mean_uz(d) * mean_uz(d)))

(* a faulty variant: the smaller of mean - 4 sigma and MinUz is taken *)
chosen_min_uz_TakesMin(d) ==
    Min(Min(mean_uz(d) - 4 * sigma_uz(d), d.MinUz), max_supported_uz)

(* std::min(std::max(sigma_uz_dev, MinUz), max_supported_uz) *)
chosen_min_uz(d) ==
    Min(Max(mean_uz(d) - 4 * sigma_uz(d), d.MinUz), max_supported_uz)

(* beams_min_uz[ibeam], after std::max with m_threshold_uz *)
beams_min_uz(d, mass, threshold_uz) ==
    Max(chosen_min_uz(d) * mass * mass, threshold_uz)

(* the loop over niter: the time step that resolves the betatron period   *)
(* at density[i], kept in new_dts[ibeam] when min_uz > m_threshold_uz      *)
RECURSIVE PredictLoop(_, _, _, _, _, _, _, _)
PredictLoop(i, niter, min_uz0, dt0, kept, MinAcc, density, c) ==
    IF i >= niter THEN kept
    ELSE LET min_uz == Max(min_uz0 + MinAcc * dt0, c.threshold_uz \div 1000)
             omega_p == 100 * Sqrt(density[i])
             new_dt == (TwoPi * 100 * Sqrt(2 * min_uz)) \div (omega_p * c.nt_per_betatron)
         IN  PredictLoop(i + 1, niter, min_uz, new_dt,
                         IF min_uz > c.threshold_uz THEN new_dt ELSE kept,
                         MinAcc, density, c)

(* a faulty variant: m_adaptive_predict_step is not looked at *)
niter_IgnoresFlag(c) == c.numprocs

(* niter = m_adaptive_predict_step ? numprocs : 1 *)
niter(c) == IF c.adaptive_predict_step THEN c.numprocs ELSE 1

(* new_dts[ibeam] *)
new_dt_of_beam(d, mass, dt, density, c) ==
    PredictLoop(0, niter(c), beams_min_uz(d, mass, c.threshold_uz), dt, dt,
                d.MinAcc, density, c)

(* a faulty variant: the upper bound m_dt_max is not applied *)
new_dt_Uncapped(new_dts, dt_max) == MinElement(new_dts)

(* dt = *std::min_element(new_dts); dt = std::min(dt, m_dt_max) *)
new_dt(new_dts, dt_max) == Min(MinElement(new_dts), dt_max)

(* the parameters of the adaptive time step and the beams; a parameter    *)
(* that is not read has its first value                                    *)
DtConfigs ==
    {c \in [do_adaptive_time_step : BOOLEAN, nbeams : 1 .. MaxBeams,
            dt_max : {100, 5000}, threshold_uz : {1, 20},
            nt_per_betatron : {20}, adaptive_predict_step : BOOLEAN,
            numprocs : {2},
            adaptive_control_phase_advance : BOOLEAN,
            adaptive_phase_substeps : 1 .. MaxSubsteps,
            adaptive_phase_tolerance : {0, 0 - 1, 200}] :
        /\ ~c.do_adaptive_time_step =>
              /\ c.nbeams = 1 /\ c.dt_max = 100 /\ c.threshold_uz = 1
              /\ ~c.adaptive_predict_step /\ ~c.adaptive_control_phase_advance
        /\ ~c.adaptive_control_phase_advance =>
              c.adaptive_phase_substeps = 1 /\ c.adaptive_phase_tolerance = 0}

(* beam.m_mass in units of m_e: the first beam is of electrons, the others *)
(* of particles twice as heavy                                             *)
BeamMass(c, ibeam) == IF ibeam = 1 THEN 1 ELSE 2

(* the time step before the call *)
DtValues == {30, 9000}

(* plasmas.maxDensity(z): 0 is no plasma *)
DensityValues == {0, 1, 4}

InitDt ==
    /\ IdlePipe
    /\ slices = [r \in Ranks |-> AllocData(FALSE)]
    /\ pre = IdlePre
    /\ pcl = IdlePcl
    /\ mg = IdleMg
    /\ dec = IdleDec
    /\ tile = IdleTile
    /\ \E c \in DtConfigs, dt0 \in DtValues :
         /\ ~c.adaptive_control_phase_advance
         /\ ats = [at |-> "gather", c |-> c, dt |-> dt0, m_min_uz |-> 0,
                   m_timestep_data |-> [b \in 1 .. c.nbeams |-> InitialTimestepData],
                   ngathered |-> 0,
                   gathered |-> [b \in 1 .. c.nbeams |-> NoParticles],
                   call |-> [f |-> "none"]]

DtUnchanged ==
    UNCHANGED <<cfg, pc, step, ibox, islice, slices, m_send_buffer, m_send_request,
                heap, chan, reqDone, zlog, matched, aborted, pre, pcl, mg, dec, tile>>

(* GatherMinUzSlice(beams, false) for one slice that holds particles:     *)
(* every beam adds the particles of its slice; gathered records them       *)
GatherMinUzSlice ==
    /\ ats.at = "gather"
    /\ \E sl \in [1 .. ats.c.nbeams -> BeamSlices] :
         LET n == Cardinality({b \in 1 .. ats.c.nbeams : sl[b] # <<>>})
         IN  /\ n > 0
             /\ ats.ngathered + n <= MaxParticles
             /\ ats' = [ats EXCEPT
                   !.ngathered = @ + n,
                   !.m_timestep_data =
                       IF ats.c.do_adaptive_time_step
                       THEN [b \in 1 .. ats.c.nbeams |-> ReduceSlice(@[b], sl[b])]
                       ELSE @,
                   !.gathered = [b \in 1 .. ats.c.nbeams |-> AddParticles(@[b], sl[b])]]
    /\ DtUnchanged

(* CalculateFromMinUz(t, dt, beams, plasmas): call records the time step   *)
(* before the call, beams_min_uz and new_dts                               *)
CalculateFromMinUz ==
    /\ ats.at = "gather"
    /\ LET c == ats.c
           B == 1 .. c.nbeams
       IN  IF ~c.do_adaptive_time_step
           THEN ats' = [ats EXCEPT !.at = "density"]
           ELSE IF \E b \in B : ats.m_timestep_data[b].SumWeights = 0
           THEN ats' = [ats EXCEPT !.at = "aborted",
                          !.call = [f |-> "CalculateFromMinUz",
                                    msg |-> "The sum of all weights is 0!"]]
           ELSE \E density \in [0 .. (niter(c) - 1) -> DensityValues] :
                  IF \E i \in DOMAIN density : density[i] = 0
                  THEN ats' = [ats EXCEPT !.at = "aborted",
                                 !.call = [f |-> "CalculateFromMinUz",
                                           msg |-> "A >0 plasma density must be specified"]]
                  ELSE LET bmu == [b \in B |->
                                      beams_min_uz(ats.m_timestep_data[b],
                                                   BeamMass(c, b), c.threshold_uz)]
                           dts == [b \in B |->
                                      new_dt_of_beam(ats.m_timestep_data[b],
                                                     BeamMass(c, b), ats.dt, density, c)]
                       IN  ats' = [ats EXCEPT
                                     !.at = "density",
                                     !.m_min_uz = MinElement(bmu),
                                     !.dt = new_dt(dts, c.dt_max),
                                     !.call = [f |-> "CalculateFromMinUz",
                                               dt0 |-> ats.dt, density |-> density,
                                               beams_min_uz |-> bmu, new_dts |-> dts]]
    /\ DtUnchanged

(* omgp / std::sqrt(2. * m_min_uz), in hundredths *)
omgb(density, min_uz) == (100 * Sqrt(density)) \div Sqrt(2 * min_uz)

(* 2. * MathConst::pi * m_adaptive_phase_tolerance / m_nt_per_betatron *)
PhaseLimit(c) == (TwoPi * c.adaptive_phase_tolerance) \div c.nt_per_betatron

(* a faulty variant: only a phase that runs ahead is seen *)
PhaseExceeded_NoAbs(phase_advance, phase_advance0, c) ==
    phase_advance - phase_advance0 > PhaseLimit(c)

(* std::abs(phase_advance - phase_advance0) > 2 pi tolerance / nt *)
PhaseExceeded(phase_advance, phase_advance0, c) ==
    Abs(phase_advance - phase_advance0) > PhaseLimit(c)

(* the loop over the substeps: the time step it leaves in dt *)
RECURSIVE PhaseLoop(_, _, _, _, _, _, _)
PhaseLoop(i, phase_advance, phase_advance0, dt, density, min_uz, c) ==
    IF i >= c.adaptive_phase_substeps THEN dt
    ELSE LET dt_sub == dt \div c.adaptive_phase_substeps
             pa == phase_advance + omgb(density[i], min_uz) * dt_sub
             pa0 == phase_advance0 + omgb(density[0], min_uz) * dt_sub
         IN  IF PhaseExceeded(pa, pa0, c) THEN i * dt_sub
             ELSE PhaseLoop(i + 1, pa, pa0, dt, density, min_uz, c)

(* CalculateFromDensity(t, dt, plasmas): density[i] is                     *)
(* plasmas.maxDensity(c * (t + i * dt_sub)), density[0] also the density   *)
(* at the beginning of the step                                            *)
CalculateFromDensity ==
    /\ ats.at = "density"
    /\ LET c == ats.c
       IN  IF ~c.do_adaptive_time_step
           THEN ats' = [ats EXCEPT !.at = "done"]
           ELSE IF ~c.adaptive_control_phase_advance
           THEN ats' = [ats EXCEPT
                          !.at = "done",
                          !.m_timestep_data = [b \in 1 .. c.nbeams |-> InitialTimestepData],
                          !.call = [f |-> "CalculateFromDensity", control |-> FALSE,
                                    dt0 |-> ats.dt]]
           ELSE \E density \in [0 .. (c.adaptive_phase_substeps - 1) -> DensityValues] :
                  ats' = [ats EXCEPT
                            !.at = "done",
                            !.m_timestep_data =
                                [b \in 1 .. c.nbeams |-> InitialTimestepData],
                            !.dt = PhaseLoop(0, 0, 0, ats.dt, density, ats.m_min_uz, c),
                            !.call = [f |-> "CalculateFromDensity", control |-> TRUE,
                                      dt0 |-> ats.dt, density |-> density]]
    /\ DtUnchanged

(* the next time step begins with the time step just computed: the slices *)
(* are gathered anew                                                      *)
NextTimeStep ==
    /\ ats.at = "done"
    /\ ats' = [ats EXCEPT !.at = "gather", !.ngathered = 0, !.call = [f |-> "none"],
                          !.gathered = [b \in 1 .. ats.c.nbeams |-> NoParticles]]
    /\ DtUnchanged

NextDt ==
    \/ GatherMinUzSlice
    \/ CalculateFromMinUz
    \/ CalculateFromDensity
    \/ NextTimeStep

SpecDt == InitDt /\ [][NextDt]_vars

(* CalculateFromMinUz has just set the time step *)
MinUzCalculated ==
    /\ ats.at = "density"
    /\ ats.c.do_adaptive_time_step
    /\ ats.call.f = "CalculateFromMinUz"

Beams == 1 .. ats.c.nbeams

RECURSIVE SumOver(_, _, _)
SumOver(P, g, k) ==
    IF P = {} THEN 0
    ELSE LET p == CHOOSE q \in P : TRUE
             t == IF k = 0 THEN p.w ELSE IF k = 1 THEN p.w * p.uz ELSE p.w * p.uz * p.uz
         IN  (IF p.id < 0 THEN 0 ELSE g[p] * t) + SumOver(P \ {p}, g, k)

(* the weighted mean of uz over the particles gathered *)
GatheredMean(g) ==
    SumOver(BeamParticles, g, 1) \div SumOver(BeamParticles, g, 0)

(* the weighted standard deviation of uz over the particles gathered *)
GatheredSigma(g) ==
    Sqrt(Abs(SumOver(BeamParticles, g, 2)
                 \div SumOver(BeamParticles, g, 0)
             - GatheredMean(g) * GatheredMean(g)))

(* the smallest uz gathered *)
GatheredMinUz(g) ==
    LET U == {p.uz : p \in {q \in BeamParticles : q.id >= 0 /\ g[q] > 0}}
    IN  CHOOSE u \in U : \A v \in U : u <= v

(* C12 as stated, for the beams of electrons (m_beam = m_e): the candidate  *)
(* minimum uz of the beam is max(min(mean - 4 sigma, min_uz), threshold).  *)
C12_CandidateIsMinOfBoth ==
    MinUzCalculated =>
        \A b \in Beams :
            BeamMass(ats.c, b) = 1 =>
                ats.call.beams_min_uz[b] =
                    Max(Min(GatheredMean(ats.gathered[b])
                                - 4 * GatheredSigma(ats.gathered[b]),
                            GatheredMinUz(ats.gathered[b])),
                        ats.c.threshold_uz)

(* C12, amended: the candidate minimum uz of every beam is                 *)
(* max(min(max(mean - 4 sigma, min_uz), 1e30) * (m_beam / m_e)^2,          *)
(* threshold).                                                             *)
C12_CandidateIsMaxOfBoth ==
    MinUzCalculated =>
        \A b \in Beams :
            ats.call.beams_min_uz[b] =
                Max(Min(Max(GatheredMean(ats.gathered[b])
                                - 4 * GatheredSigma(ats.gathered[b]),
                            GatheredMinUz(ats.gathered[b])),
                        max_supported_uz)
                    * BeamMass(ats.c, b) * BeamMass(ats.c, b),
                    ats.c.threshold_uz)

(* both orders of mean - 4 sigma and min_uz, above the threshold *)
C12_Witness ==
    /\ MinUzCalculated
    /\ ats.c.nbeams >= 2
    /\ GatheredMean(ats.gathered[1]) - 4 * GatheredSigma(ats.gathered[1])
           > GatheredMinUz(ats.gathered[1])
    /\ GatheredMinUz(ats.gathered[1]) > ats.c.threshold_uz
    /\ ats.call.beams_min_uz[2] > ats.c.threshold_uz

(***************************************************************************)
(* The phase-advance control alone: one beam of electrons, the control     *)
(* switched on, over the same time-step cycle.                             *)
(***************************************************************************)
InitPhase ==
    /\ IdlePipe
    /\ slices = [r \in Ranks |-> AllocData(FALSE)]
    /\ pre = IdlePre
    /\ pcl = IdlePcl
    /\ mg = IdleMg
    /\ dec = IdleDec
    /\ tile = IdleTile
    /\ \E c \in DtConfigs, dt0 \in DtValues :
         /\ c.adaptive_control_phase_advance
         /\ c.nbeams = 1 /\ c.dt_max = 5000 /\ ~c.adaptive_predict_step
         /\ ats = [at |-> "gather", c |-> c, dt |-> dt0, m_min_uz |-> 0,
                   m_timestep_data |-> [b \in 1 .. c.nbeams |-> InitialTimestepData],
                   ngathered |-> 0,
                   gathered |-> [b \in 1 .. c.nbeams |-> NoParticles],
                   call |-> [f |-> "none"]]

SpecPhase == InitPhase /\ [][NextDt]_vars

(* CalculateFromDensity has returned *)
DensityCalculated == ats.at = "done" /\ ats.call.f = "CalculateFromDensity"

(* the phase advance in the density profile minus the one in the density   *)
(* of the beginning of the step, after substeps 0 .. i                     *)
RECURSIVE PhaseDrift(_)
PhaseDrift(i) ==
    IF i < 0 THEN 0
    ELSE PhaseDrift(i - 1)
           + (omgb(ats.call.density[i], ats.m_min_uz)
                - omgb(ats.call.density[0], ats.m_min_uz))
             * (ats.call.dt0 \div ats.c.adaptive_phase_substeps)

(* the substeps whose accumulated phase advance is off by more than the    *)
(* tolerance                                                               *)
SubstepsOffPhase ==
    {i \in 0 .. (ats.c.adaptive_phase_substeps - 1) :
        Abs(PhaseDrift(i)) > PhaseLimit(ats.c)}

FirstOffPhase == CHOOSE i \in SubstepsOffPhase : \A j \in SubstepsOffPhase : i <= j

(* C13: CalculateFromDensity leaves dt unchanged unless the accumulated    *)
(* phase advance of some substep i differs from the one in the initial     *)
(* density by more than 2 pi tolerance / nt_per_betatron; then dt is       *)
(* i * dt / substeps for the first such i. The result never exceeds the    *)
(* candidate dt, and for a tolerance that is not negative it is never cut  *)
(* at substep 0: a positive candidate gives a positive result.             *)
C13_PhaseAdvanceTruncation ==
    DensityCalculated =>
        LET dt0 == ats.call.dt0
            dt_sub == dt0 \div ats.c.adaptive_phase_substeps
        IN  /\ ~ats.call.control => ats.dt = dt0
            /\ ats.call.control =>
                 /\ SubstepsOffPhase = {} => ats.dt = dt0
                 /\ SubstepsOffPhase # {} => ats.dt = FirstOffPhase * dt_sub
                 /\ dt0 >= 0 => ats.dt <= dt0
                 /\ ats.c.adaptive_phase_tolerance >= 0 =>
                       /\ 0 \notin SubstepsOffPhase
                       /\ dt_sub > 0 => ats.dt > 0

(* the time step was cut at a substep after the first, the phase lagging   *)
C13_Witness ==
    /\ DensityCalculated
    /\ ats.call.control
    /\ ats.c.adaptive_phase_tolerance >= 0
    /\ SubstepsOffPhase # {}
    /\ PhaseDrift(FirstOffPhase) < 0
    /\ ats.dt > 0 /\ ats.dt < ats.call.dt0

(***************************************************************************)
(* Startup: the constructor of Hipace on every process of the world        *)
(* communicator, then InitData, in which AmrCore::InitFromScratch calls    *)
(* PostProcessBaseGrids and MakeNewLevelFromScratch.                       *)
(***************************************************************************)
MaxNProcs == 4
MaxProcsXY == 2
MaxGridSizeZ == 3
MaxCellsZ == 6

(* amrex::ParallelDescriptor::NProcs(), hipace.numprocs_x, numprocs_y,     *)
(* grid_size_z and the number of cells of Geom(0).Domain()                 *)
StartupInputs ==
    [NProcs : 1 .. MaxNProcs,
     numprocs_x : 0 .. MaxProcsXY, numprocs_y : 0 .. MaxProcsXY,
     grid_size_z : 0 .. MaxGridSizeZ,
     ncells_global : {2, 3} \X {2} \X (1 .. MaxCellsZ)]

World(in) == 0 .. (in.NProcs - 1)

(* a communicator handle that was not created yet *)
MPI_COMM_NULL == [members |-> {}, rank |-> 0 - 1]

(* MPI_Comm_split(comm, color, key, &newcomm) as seen by process p: the    *)
(* processes of the same color, ranked by key, ties by their old rank      *)
MPI_Comm_split(procs, color, key, p) ==
    LET members == {q \in procs : color[q] = color[p]}
    IN  [members |-> members,
         rank |-> Cardinality({q \in members :
                                  \/ key[q] < key[p]
                                  \/ key[q] = key[p] /\ q < p})]

(* the process that has the given rank in the communicator of p *)
ProcWithRank(comms, p, rank) ==
    {q \in comms[p].members : comms[q].rank = rank}

(* a faulty variant: the position within the slab taken for the slab *)
rank_z_Modulo(myproc, numprocs_x, numprocs_y) == myproc % (numprocs_x * numprocs_y)

(* m_rank_z = myproc/(m_numprocs_x*m_numprocs_y) *)
rank_z(myproc, numprocs_x, numprocs_y) == myproc \div (numprocs_x * numprocs_y)

InitStartup ==
    /\ IdlePipe
    /\ slices = [r \in Ranks |-> AllocData(FALSE)]
    /\ pre = IdlePre
    /\ pcl = IdlePcl
    /\ mg = IdleMg
    /\ ats = IdleAts
    /\ tile = IdleTile
    /\ \E in \in StartupInputs :
         dec = [at |-> "startup", in |-> in,
                pc |-> [p \in World(in) |-> "ctor"],
                m_numprocs_z |-> [p \in World(in) |-> 0],
                m_rank_z |-> [p \in World(in) |-> 0],
                m_rank_xy |-> [p \in World(in) |-> 0],
                m_comm_xy |-> [p \in World(in) |-> MPI_COMM_NULL],
                m_comm_z |-> [p \in World(in) |-> MPI_COMM_NULL],
                ba |-> [p \in World(in) |-> << >>],
                procmap |-> [p \in World(in) |-> << >>],
                abort |-> "none"]

StartupUnchanged ==
    UNCHANGED <<cfg, pc, step, ibox, islice, slices, m_send_buffer, m_send_request,
                heap, chan, reqDone, zlog, matched, aborted, pre, pcl, mg, ats, tile>>

(* amrex::Abort of a failed AMREX_ALWAYS_ASSERT ("config"), or the trap of *)
(* an integer division by zero ("trap"): the whole job ends                *)
StartupAbort(kind) == dec' = [dec EXCEPT !.abort = kind]

(* Hipace::Hipace() up to the first MPI_Comm_split. The quotient by        *)
(* numprocs_x*numprocs_y = 0 is undefined: the process traps, or goes on   *)
(* with some quotient and fails the assertion on the product.              *)
Hipace_ctor(p) ==
    /\ dec.at = "startup" /\ dec.abort = "none"
    /\ p \in World(dec.in) /\ dec.pc[p] = "ctor"
    /\ LET in == dec.in
           n_xy == in.numprocs_x * in.numprocs_y
       IN  IF n_xy = 0
           THEN \E kind \in {"trap", "config"} : StartupAbort(kind)
           ELSE LET numprocs_z == in.NProcs \div n_xy
                IN  IF n_xy * numprocs_z # in.NProcs
                    THEN StartupAbort("config")
                    ELSE dec' = [dec EXCEPT
                                   !.m_numprocs_z[p] = numprocs_z,
                                   !.m_rank_z[p] = rank_z(p, in.numprocs_x, in.numprocs_y),
                                   !.pc[p] = "split_xy"]
    /\ StartupUnchanged

(* the first MPI_Comm_split returns once every process has called it; then *)
(* MPI_Comm_rank(m_comm_xy, &m_rank_xy) and the call of the second split   *)
Hipace_ctor_comm_xy(p) ==
    /\ dec.at = "startup" /\ dec.abort = "none"
    /\ p \in World(dec.in) /\ dec.pc[p] = "split_xy"
    /\ \A q \in World(dec.in) : dec.pc[q] # "ctor"
    /\ LET comm == MPI_Comm_split(World(dec.in), dec.m_rank_z,
                                  [q \in World(dec.in) |-> q], p)
       IN  dec' = [dec EXCEPT !.m_comm_xy[p] = comm,
                              !.m_rank_xy[p] = comm.rank,
                              !.pc[p] = "split_z"]
    /\ StartupUnchanged

(* the second MPI_Comm_split returns once every process has called it: the *)
(* constructor is done                                                     *)
Hipace_ctor_comm_z(p) ==
    /\ dec.at = "startup" /\ dec.abort = "none"
    /\ p \in World(dec.in) /\ dec.pc[p] = "split_z"
    /\ \A q \in World(dec.in) : dec.pc[q] \notin {"ctor", "split_xy"}
    /\ dec' = [dec EXCEPT
                 !.m_comm_z[p] = MPI_Comm_split(World(dec.in), dec.m_rank_xy,
                                                [q \in World(dec.in) |-> q], p),
                 !.pc[p] = "constructed"]
    /\ StartupUnchanged

(* the boxes of PostProcessBaseGrids in the order of its loops: k outer,   *)
(* then j, then i; lo = (i,j,k)*box_size and hi = (i+1,j+1,k+1)*box_size-1 *)
BoxList(nboxes_x, nboxes_y, n_boxes_z, box_size) ==
    [n \in 1 .. (nboxes_x * nboxes_y * n_boxes_z) |->
        LET i == (n - 1) % nboxes_x
            j == ((n - 1) \div nboxes_x) % nboxes_y
            k == (n - 1) \div (nboxes_x * nboxes_y)
        IN  [lo |-> <<i * box_size[1], j * box_size[2], k * box_size[3]>>,
             hi |-> <<(i + 1) * box_size[1] - 1, (j + 1) * box_size[2] - 1,
                      (k + 1) * box_size[3] - 1>>]]

(* Hipace::PostProcessBaseGrids(ba0). With grid_size_z = 0 and fewer cells *)
(* than processes in z the box size is 0 and the quotient by it undefined: *)
(* the process traps, or goes on and fails the assertion that follows.     *)
PostProcessBaseGrids(p) ==
    /\ dec.at = "startup" /\ dec.abort = "none"
    /\ p \in World(dec.in) /\ dec.pc[p] = "constructed"
    /\ LET in == dec.in
           ncells_global == in.ncells_global
           box_size_x == ncells_global[1] \div in.numprocs_x
           box_size_y == ncells_global[2] \div in.numprocs_y
           box_size_z == IF in.grid_size_z = 0
                         THEN ncells_global[3] \div dec.m_numprocs_z[p]
                         ELSE in.grid_size_z
       IN  IF \/ box_size_x * in.numprocs_x # ncells_global[1]
              \/ box_size_y * in.numprocs_y # ncells_global[2]
           THEN StartupAbort("config")
           ELSE IF box_size_z = 0
           THEN \E kind \in {"trap", "config"} : StartupAbort(kind)
           ELSE LET n_boxes_z == ncells_global[3] \div box_size_z
                IN  IF box_size_z * n_boxes_z # ncells_global[3]
                    THEN StartupAbort("config")
                    ELSE dec' = [dec EXCEPT
                                   !.ba[p] = BoxList(in.numprocs_x, in.numprocs_y, n_boxes_z,
                                                     <<box_size_x, box_size_y, box_size_z>>),
                                   !.pc[p] = "grids"]
    /\ StartupUnchanged

(* the rank of box number n of the box array: rx + ry*m_numprocs_x +       *)
(* rz*(m_numprocs_x*m_numprocs_y) with rz = k/nboxes_z_local               *)
ProcOfBox(n, nboxes_x, nboxes_y, nboxes_z_local) ==
    LET i == (n - 1) % nboxes_x
        j == ((n - 1) \div nboxes_x) % nboxes_y
        k == (n - 1) \div (nboxes_x * nboxes_y)
    IN  i + j * nboxes_x + (k \div nboxes_z_local) * (nboxes_x * nboxes_y)

(* Hipace::MakeNewLevelFromScratch(lev, time, ba, dm). With fewer boxes    *)
(* than processes in z nboxes_z_local is 0 and k/nboxes_z_local undefined: *)
(* the process traps, or some rz comes out of the division.                *)
MakeNewLevelFromScratch(p) ==
    /\ dec.at = "startup" /\ dec.abort = "none"
    /\ p \in World(dec.in) /\ dec.pc[p] = "grids"
    /\ LET in == dec.in
           ba == dec.ba[p]
           box_size_z == ba[1].hi[3] - ba[1].lo[3] + 1
           n_boxes_z == in.ncells_global[3] \div box_size_z
           nboxes_z_local == n_boxes_z \div dec.m_numprocs_z[p]
       IN  IF in.numprocs_x * in.numprocs_y * n_boxes_z # Len(ba)
           THEN StartupAbort("config")
           ELSE IF nboxes_z_local = 0
           THEN \/ StartupAbort("trap")
                \/ \E rz \in 0 .. dec.m_numprocs_z[p] :
                     dec' = [dec EXCEPT
                               !.procmap[p] =
                                   [n \in 1 .. Len(ba) |->
                                       ((n - 1) % (in.numprocs_x * in.numprocs_y))
                                         + rz * (in.numprocs_x * in.numprocs_y)],
                               !.pc[p] = "done"]
           ELSE dec' = [dec EXCEPT
                          !.procmap[p] =
                              [n \in 1 .. Len(ba) |->
                                  ProcOfBox(n, in.numprocs_x, in.numprocs_y, nboxes_z_local)],
                          !.pc[p] = "done"]
    /\ StartupUnchanged

NextStartup ==
    \/ \E p \in World(dec.in) : Hipace_ctor(p)
    \/ \E p \in World(dec.in) : Hipace_ctor_comm_xy(p)
    \/ \E p \in World(dec.in) : Hipace_ctor_comm_z(p)
    \/ \E p \in World(dec.in) : PostProcessBaseGrids(p)
    \/ \E p \in World(dec.in) : MakeNewLevelFromScratch(p)

SpecStartup == InitStartup /\ [][NextStartup]_vars

(* the z-indices of the boxes that the process map of p gives to rank r *)
BoxesInZ(p, r) ==
    {(n - 1) \div (dec.in.numprocs_x * dec.in.numprocs_y) :
        n \in {m \in 1 .. Len(dec.procmap[p]) : dec.procmap[p][m] = r}}

Contiguous(S) == \A a \in S, b \in S : \A k \in a .. b : k \in S

(* C14: startup either aborts with a configuration error or yields a       *)
(* decomposition in which every box is assigned to a rank in [0, NProcs)   *)
(* and every rank owns a contiguous range in z. Stated for the             *)
(* decompositions that are built: a process map that MakeNewLevelFromScratch *)
(* has made names only ranks of the world and gives each a contiguous      *)
(* z-range.                                                                *)
C14_EveryBoxOnARankOfTheWorld ==
    dec.at = "startup" =>
        \A p \in World(dec.in) :
            dec.pc[p] = "done" =>
                /\ \A n \in 1 .. Len(dec.procmap[p]) :
                       dec.procmap[p][n] \in World(dec.in)
                /\ \A r \in World(dec.in) : Contiguous(BoxesInZ(p, r))

(* every process has left the constructor *)
AllConstructed ==
    /\ dec.at = "startup" /\ dec.abort = "none"
    /\ \A p \in World(dec.in) : dec.pc[p] \in {"constructed", "grids", "done"}

(* the slab of z-indices of boxes, counted in boxes per process, that the  *)
(* process map of p gives to the rank r                                    *)
SlabsOfRank(p, r) ==
    LET ba == dec.ba[p]
        box_size_z == ba[1].hi[3] - ba[1].lo[3] + 1
        n_boxes_z == dec.in.ncells_global[3] \div box_size_z
    IN  {k \div (n_boxes_z \div dec.m_numprocs_z[p]) : k \in BoxesInZ(p, r)}

(* C15: after construction the xy communicator of a process holds exactly  *)
(* the numprocs_x*numprocs_y ranks that share its z-slab, the z            *)
(* communicator holds one rank per slab, the sizes multiply to the size of *)
(* the world, the rank of the process in the z communicator is m_rank_z,   *)
(* and the ranks m_rank_z - 1 and m_rank_z + 1 of the z communicator are   *)
(* the processes of the adjacent slabs at the same transverse position.    *)
(* The slab of a process is the one the process map gives it, where there  *)
(* is at least one box per process in z.                                   *)
C15_CommunicatorsFollowTheSlabs ==
    AllConstructed =>
        \A p \in World(dec.in) :
            LET n_xy == dec.in.numprocs_x * dec.in.numprocs_y
                xy == dec.m_comm_xy[p]
                z == dec.m_comm_z[p]
            IN  /\ Cardinality(xy.members) = n_xy
                /\ xy.members = {q \in World(dec.in) : dec.m_rank_z[q] = dec.m_rank_z[p]}
                /\ Cardinality(z.members) = dec.m_numprocs_z[p]
                /\ \A s \in 0 .. (dec.m_numprocs_z[p] - 1) :
                       Cardinality({q \in z.members : dec.m_rank_z[q] = s}) = 1
                /\ Cardinality(xy.members) * Cardinality(z.members) = dec.in.NProcs
                /\ z.rank = dec.m_rank_z[p]
                /\ \A d \in {0 - 1, 1} :
                       dec.m_rank_z[p] + d \in 0 .. (dec.m_numprocs_z[p] - 1) =>
                           /\ ProcWithRank(dec.m_comm_z, p, dec.m_rank_z[p] + d)
                                 = {p + d * n_xy}
                           /\ dec.m_rank_z[p + d * n_xy] = dec.m_rank_z[p] + d
                           /\ dec.m_rank_xy[p + d * n_xy] = dec.m_rank_xy[p]
                /\ dec.pc[p] = "done" =>
                       \A q \in World(dec.in) :
                           (Len(dec.procmap[p]) \div n_xy) >= dec.m_numprocs_z[p]
                               => SlabsOfRank(p, q) \subseteq {dec.m_rank_z[q]}

(* four processes, two per slab, all constructed, one with its process map *)
C15_Witness ==
    /\ AllConstructed
    /\ dec.in.NProcs = 4 /\ dec.in.numprocs_x = 2 /\ dec.in.numprocs_y = 1
    /\ dec.pc[3] = "done"
    /\ dec.m_comm_z[3] = [members |-> {1, 3}, rank |-> 1]
    /\ dec.m_comm_xy[3] = [members |-> {2, 3}, rank |-> 1]
    /\ SlabsOfRank(3, 1) = {0}

(***************************************************************************)
(* BoxSorter::sortParticlesByBox: the threads of the two kernels run in    *)
(* any order, each thread of the first kernel doing one atomic add.        *)
(***************************************************************************)
MaxTileParticles == 3
MaxBoxes == 2

(* a beam particle: box is what assign_grid gives for its position (-1     *)
(* outside of every box), id its id, n the place it had in the input       *)
TileParticles(num_boxes) ==
    [box : (0 - 1) .. (num_boxes - 1), id : {0 - 1, 1}, n : 0 .. (MaxTileParticles - 1)]

(* the tiles of np particles *)
Tiles(num_boxes, np) ==
    {[i \in 0 .. (np - 1) |-> [box |-> f[i].box, id |-> f[i].id, n |-> i]] :
        f \in [0 .. (np - 1) -> {p \in TileParticles(num_boxes) : p.n = 0}]}

(* dst_box of a thread of either kernel *)
dst_box(p, num_boxes) ==
    IF p.id < 0 THEN num_boxes
    ELSE IF p.box < 0 THEN num_boxes
    ELSE p.box

(* counts[0] + ... + counts[b - 1] *)
RECURSIVE PrefixSum(_, _)
PrefixSum(counts, b) ==
    IF b <= 0 THEN 0 ELSE counts[b - 1] + PrefixSum(counts, b - 1)

(* a faulty variant: the running sum including the element itself *)
inclusive_scan(counts) == [b \in DOMAIN counts |-> PrefixSum(counts, b + 1)]

(* amrex::Gpu::exclusive_scan(m_box_counts.begin(), m_box_counts.end(),    *)
(* m_box_offsets.begin())                                                  *)
exclusive_scan(counts) == [b \in DOMAIN counts |-> PrefixSum(counts, b)]

(* a default-constructed particle of BeamTile tmp *)
NoParticle == [box |-> 0 - 1, id |-> 0, n |-> 0 - 1]

(* amrex::scatterParticles(tmp, a_beam, np, dst_indices):                  *)
(* tmp[dst_indices[i]] = a_beam[i], in any order of the threads            *)
scatterParticles(src, dst_indices) ==
    {tmp \in [DOMAIN src -> {src[i] : i \in DOMAIN src} \cup {NoParticle}] :
        \A j \in DOMAIN src :
            IF \E i \in DOMAIN src : dst_indices[i] = j
            THEN \E i \in DOMAIN src : dst_indices[i] = j /\ tmp[j] = src[i]
            ELSE tmp[j] = NoParticle}

InitBoxSort ==
    /\ IdlePipe
    /\ slices = [r \in Ranks |-> AllocData(FALSE)]
    /\ pre = IdlePre
    /\ pcl = IdlePcl
    /\ mg = IdleMg
    /\ ats = IdleAts
    /\ dec = IdleDec
    /\ \E num_boxes \in 1 .. MaxBoxes, np \in 0 .. MaxTileParticles :
         \E a_beam \in Tiles(num_boxes, np) :
           tile = [at |-> "count", num_boxes |-> num_boxes, np |-> np,
                   input |-> a_beam, ptd |-> a_beam,
                   counted |-> {}, shifted |-> {},
                   m_box_counts |-> [b \in 0 .. num_boxes |-> 0],
                   m_box_offsets |-> [b \in 0 .. num_boxes |-> 0],
                   dst_indices |-> [i \in 0 .. (np - 1) |-> 0],
                   m_box_counts_cpu |-> [b \in 0 .. num_boxes |-> 0],
                   m_box_offsets_cpu |-> [b \in 0 .. num_boxes |-> 0]]

TileUnchanged ==
    UNCHANGED <<cfg, pc, step, ibox, islice, slices, m_send_buffer, m_send_request,
                heap, chan, reqDone, zlog, matched, aborted, pre, pcl, mg, ats, dec>>

(* thread i of the first kernel: the particle that left the domain is      *)
(* invalidated, amrex::Gpu::Atomic::Add gives the count before the add     *)
CountThread(i) ==
    /\ tile.at = "count"
    /\ i \in 0 .. (tile.np - 1) /\ i \notin tile.counted
    /\ LET p == tile.ptd[i]
           b == dst_box(p, tile.num_boxes)
       IN  tile' = [tile EXCEPT
                      !.ptd[i].id = IF p.id >= 0 /\ p.box < 0 THEN 0 - Abs(p.id) ELSE p.id,
                      !.dst_indices[i] = tile.m_box_counts[b],
                      !.m_box_counts[b] = tile.m_box_counts[b] + 1,
                      !.counted = tile.counted \cup {i}]
    /\ TileUnchanged

(* the scan after the first kernel *)
ExclusiveScan ==
    /\ tile.at = "count"
    /\ tile.counted = 0 .. (tile.np - 1)
    /\ tile' = [tile EXCEPT !.m_box_offsets = exclusive_scan(tile.m_box_counts),
                            !.at = "shift"]
    /\ TileUnchanged

(* thread i of the second kernel *)
OffsetThread(i) ==
    /\ tile.at = "shift"
    /\ i \in 0 .. (tile.np - 1) /\ i \notin tile.shifted
    /\ LET b == dst_box(tile.ptd[i], tile.num_boxes)
       IN  tile' = [tile EXCEPT
                      !.dst_indices[i] = tile.dst_indices[i] + tile.m_box_offsets[b],
                      !.shifted = tile.shifted \cup {i}]
    /\ TileUnchanged

(* scatterParticles, a_beam.swap(tmp) and the copies to the host *)
ScatterAndSwap ==
    /\ tile.at = "shift"
    /\ tile.shifted = 0 .. (tile.np - 1)
    /\ \E tmp \in scatterParticles(tile.ptd, tile.dst_indices) :
         tile' = [tile EXCEPT !.ptd = tmp,
                              !.m_box_counts_cpu = tile.m_box_counts,
                              !.m_box_offsets_cpu = tile.m_box_offsets,
                              !.at = "sorted"]
    /\ TileUnchanged

NextBoxSort ==
    \/ \E i \in 0 .. (tile.np - 1) : CountThread(i)
    \/ ExclusiveScan
    \/ \E i \in 0 .. (tile.np - 1) : OffsetThread(i)
    \/ ScatterAndSwap

SpecBoxSort == InitBoxSort /\ [][NextBoxSort]_vars

BoxSorted == tile.at = "sorted"

(* the bin of the particle that came in at place n *)
BinOfInput(n) ==
    IF tile.input[n].id < 0 \/ tile.input[n].box < 0
    THEN tile.num_boxes ELSE tile.input[n].box

(* C16: whatever the order of the atomic adds, sortParticlesByBox leaves   *)
(* the tile a permutation of its input (none lost, none duplicated; the    *)
(* particles that left the domain have their id negated), the particles    *)
(* destined for box b fill exactly [offsets[b], offsets[b] + counts[b]),   *)
(* offsets is the exclusive prefix sum of counts, the counts, bin          *)
(* num_boxes included, sum to the number of particles, and every particle  *)
(* with id < 0 or outside the domain lies in the trailing bin num_boxes.   *)
C16_SortedByBox ==
    BoxSorted =>
        LET places == 0 .. (tile.np - 1)
            bins == 0 .. tile.num_boxes
            counts == tile.m_box_counts_cpu
            offsets == tile.m_box_offsets_cpu
        IN  /\ \A n \in places :
                   Cardinality({j \in places : tile.ptd[j].n = n}) = 1
            /\ \A j \in places :
                   /\ tile.ptd[j].n \in places
                   /\ tile.ptd[j].box = tile.input[tile.ptd[j].n].box
                   /\ tile.ptd[j].id =
                          IF tile.input[tile.ptd[j].n].box < 0
                          THEN 0 - Abs(tile.input[tile.ptd[j].n].id)
                          ELSE tile.input[tile.ptd[j].n].id
            /\ \A b \in bins :
                   {j \in places : BinOfInput(tile.ptd[j].n) = b}
                       = offsets[b] .. (offsets[b] + counts[b] - 1)
            /\ \A b \in bins : offsets[b] = PrefixSum(counts, b)
            /\ PrefixSum(counts, tile.num_boxes + 1) = tile.np
            /\ \A j \in places :
                   tile.input[tile.ptd[j].n].id < 0 \/ tile.input[tile.ptd[j].n].box < 0
                       => j >= offsets[tile.num_boxes]

(* three particles, the first two for box 0 and the third outside of the   *)
(* domain; the second was counted before the first and lies before it      *)
C16_Witness ==
    /\ BoxSorted
    /\ tile.np = 3 /\ tile.num_boxes = 2
    /\ tile.input[0].box = 0 /\ tile.input[0].id = 1
    /\ tile.input[1].box = 0 /\ tile.input[1].id = 1
    /\ tile.input[2].box < 0 /\ tile.input[2].id = 1
    /\ tile.ptd[0].n = 1 /\ tile.ptd[1].n = 0 /\ tile.ptd[2].n = 2
    /\ tile.ptd[2].id < 0

(***************************************************************************)
(* shiftSlippedParticles(beam, slice, geom). Positions are held in tenths  *)
(* of a cell, with geom.ProbLo(2) = 0.                                     *)
(***************************************************************************)
MaxSlice == 2

(* a faulty variant: the cell index rounded down *)
z_cell_Floor(pos_z) == pos_z \div 10

(* static_cast<int>((ptd.pos(2, ip) - plo_z) * dzi): the conversion drops  *)
(* the fraction, towards zero                                              *)
z_cell(pos_z) == IF pos_z >= 0 THEN pos_z \div 10 ELSE 0 - ((0 - pos_z) \div 10)

(* the positions: half a cell before the domain, and the middle of cells *)
PositionsZ == {0 - 5} \cup {10 * k + 5 : k \in 0 .. (MaxSlice - 1)}

SliceParticles == [id : {0 - 1, 1}, pos_z : PositionsZ, n : 0 .. (2 * MaxTileParticles)]

(* the tiles of np particles, numbered from n0 *)
SliceTiles(np, n0) ==
    {[i \in 0 .. (np - 1) |-> [id |-> f[i].id, pos_z |-> f[i].pos_z, n |-> n0 + i]] :
        f \in [0 .. (np - 1) -> {p \in SliceParticles : p.n = 0}]}

(* the tuple of the reduction for one particle: <<invalid, slipped>> *)
ReduceTuple(p, slice) ==
    IF p.id < 0 THEN <<1, 0>>
    ELSE IF z_cell(p.pos_z) < slice THEN <<0, 1>>
    ELSE <<0, 0>>

(* the sum of component c of the tuples of particles 0 .. ip - 1 *)
RECURSIVE ReduceSum(_, _, _, _)
ReduceSum(ptd, slice, c, ip) ==
    IF ip <= 0 THEN 0
    ELSE ReduceTuple(ptd[ip - 1], slice)[c] + ReduceSum(ptd, slice, c, ip - 1)

(* the predicate of the first scan *)
stays(p, slice) == p.id >= 0 /\ z_cell(p.pos_z) >= slice

(* the predicate of the second scan *)
slipped(p, slice) == p.id >= 0 /\ z_cell(p.pos_z) < slice

(* amrex::Scan::PrefixSum, exclusive: s of particle ip is the number of    *)
(* particles before it that the predicate takes; keep is the set of the    *)
(* particles taken                                                         *)
ScanIndex(keep, ip) == Cardinality({j \in keep : j < ip})

(* BeamParticleContainer::resize(which, num_particles, num_slipped) on the *)
(* tile: num_particles + num_slipped places, the old content kept          *)
resize(t, size) ==
    [j \in 0 .. (size - 1) |-> IF j \in DOMAIN t THEN t[j] ELSE NoParticle]

InitSliceSort ==
    /\ IdlePipe
    /\ slices = [r \in Ranks |-> AllocData(FALSE)]
    /\ pre = IdlePre
    /\ pcl = IdlePcl
    /\ mg = IdleMg
    /\ ats = IdleAts
    /\ dec = IdleDec
    /\ \E slice \in 0 .. MaxSlice, np \in 0 .. MaxTileParticles, next_np \in 0 .. 2 :
         \E this \in SliceTiles(np, 0), next \in SliceTiles(next_np, MaxTileParticles) :
           \E next_size \in {next_np, next_np - 1} \cap (0 .. next_np) :
             /\ \A i \in DOMAIN next : next[i].id >= 0 /\ next[i].pos_z = 5
             /\ tile = [at |-> "pushed", slice |-> slice,
                        This |-> this, Next |-> next,
                        next_num_particles |-> next_size,
                        input |-> [This |-> this, Next |-> next],
                        num_invalid |-> 0, num_slipped |-> 0, num_stay |-> 0]

(* shiftSlippedParticles(beam, slice, geom) *)
shiftSlippedParticles ==
    /\ tile.at = "pushed"
    /\ LET ptd == tile.This
           slice == tile.slice
           num_particles == Cardinality(DOMAIN ptd)
           num_invalid == ReduceSum(ptd, slice, 1, num_particles)
           num_slipped == ReduceSum(ptd, slice, 2, num_particles)
           num_stay == num_particles - num_invalid - num_slipped
           next_size == tile.next_num_particles
           keep_stay == {ip \in DOMAIN ptd : stays(ptd[ip], slice)}
           keep_slip == {ip \in DOMAIN ptd : slipped(ptd[ip], slice)}
           tmp == [s \in 0 .. (num_stay - 1) |->
                     IF \E ip \in keep_stay : ScanIndex(keep_stay, ip) = s
                     THEN ptd[CHOOSE ip \in keep_stay : ScanIndex(keep_stay, ip) = s]
                     ELSE NoParticle]
           ptd_next == resize(tile.Next, next_size + num_slipped)
           next == [j \in DOMAIN ptd_next |->
                      IF \E ip \in keep_slip : ScanIndex(keep_slip, ip) + next_size = j
                      THEN ptd[CHOOSE ip \in keep_slip :
                                   ScanIndex(keep_slip, ip) + next_size = j]
                      ELSE ptd_next[j]]
       IN  IF num_particles = 0 \/ (num_invalid = 0 /\ num_slipped = 0)
           THEN tile' = [tile EXCEPT !.at = "shifted", !.num_stay = num_particles]
           ELSE IF \/ Cardinality(DOMAIN tile.Next) # next_size
                   \/ num_stay # Cardinality(keep_stay)
                   \/ num_slipped # Cardinality(keep_slip)
           THEN tile' = [tile EXCEPT !.at = "aborted"]
           ELSE tile' = [tile EXCEPT !.at = "shifted",
                                     !.This = tmp, !.Next = next,
                                     !.next_num_particles = next_size,
                                     !.num_invalid = num_invalid,
                                     !.num_slipped = num_slipped,
                                     !.num_stay = num_stay]
    /\ TileUnchanged

NextSliceSort == shiftSlippedParticles

SpecSliceSort == InitSliceSort /\ [][NextSliceSort]_vars

SliceShifted == tile.at = "shifted"

(* the z-cell index of a particle, the fraction dropped *)
CellIndex(p) == IF p.pos_z >= 0 THEN p.pos_z \div 10 ELSE 0

(* the places of a tile that hold the particle numbered n *)
PlacesOf(t, n) == {j \in DOMAIN t : t[j].n = n}

(* the particles of a tile come in the order of their numbers *)
InInputOrder(t, from) ==
    \A a \in DOMAIN t, b \in DOMAIN t : from <= a /\ a < b => t[a].n < t[b].n

(* C17: after shiftSlippedParticles(slice) every valid particle that was   *)
(* in This is in exactly one place: in This if its z-cell index is >=      *)
(* slice, else in Next behind the particles Next had, which are unchanged; *)
(* the particles with id < 0 are dropped; staying, moved and dropped       *)
(* particles add up to the size This had; the order is kept in both tiles. *)
C17_SlippedParticlesShifted ==
    SliceShifted =>
        LET old == tile.input.This
            old_next == tile.input.Next
            size_next == Cardinality(DOMAIN old_next)
            dirty == \E i \in DOMAIN old :
                        old[i].id < 0 \/ CellIndex(old[i]) < tile.slice
        IN  /\ \A i \in DOMAIN old :
                   IF old[i].id < 0
                   THEN /\ PlacesOf(tile.This, old[i].n) = {}
                        /\ PlacesOf(tile.Next, old[i].n) = {}
                   ELSE IF CellIndex(old[i]) >= tile.slice
                   THEN /\ Cardinality(PlacesOf(tile.This, old[i].n)) = 1
                        /\ PlacesOf(tile.Next, old[i].n) = {}
                        /\ \A j \in PlacesOf(tile.This, old[i].n) : tile.This[j] = old[i]
                   ELSE /\ PlacesOf(tile.This, old[i].n) = {}
                        /\ Cardinality(PlacesOf(tile.Next, old[i].n)) = 1
                        /\ \A j \in PlacesOf(tile.Next, old[i].n) :
                               j >= size_next /\ tile.Next[j] = old[i]
            /\ \A j \in DOMAIN old_next : tile.Next[j] = old_next[j]
            /\ Cardinality(DOMAIN tile.This)
                   + (Cardinality(DOMAIN tile.Next) - size_next)
                   + Cardinality({i \in DOMAIN old : old[i].id < 0})
                 = Cardinality(DOMAIN old)
            /\ dirty => /\ tile.num_stay = Cardinality(DOMAIN tile.This)
                        /\ tile.num_slipped = Cardinality(DOMAIN tile.Next) - size_next
                        /\ tile.num_invalid = Cardinality({i \in DOMAIN old : old[i].id < 0})
            /\ InInputOrder(tile.This, 0)
            /\ InInputOrder(tile.Next, size_next)

(* slice 1: of three particles the first, in cell 0, was moved behind the  *)
(* particle Next had, the second was dropped, the third, in cell 1, stays  *)
C17_Witness ==
    /\ SliceShifted
    /\ tile.slice = 1
    /\ Cardinality(DOMAIN tile.input.This) = 3
    /\ Cardinality(DOMAIN tile.input.Next) = 1
    /\ tile.input.This[0].id = 1 /\ tile.input.This[0].pos_z = 5
    /\ tile.input.This[1].id < 0
    /\ tile.input.This[2].id = 1 /\ tile.input.This[2].pos_z = 15
    /\ DOMAIN tile.This = {0} /\ tile.This[0].n = 2
    /\ DOMAIN tile.Next = {0, 1} /\ tile.Next[1].n = 0
    /\ tile.Next[0] = tile.input.Next[0]

----------------------------------------------------------------------------
(* The hand-over between neighbours in z (Spec) *)

(* rank r is about to start the first slice of its time step *)
AtFirstSlice(r) ==
    /\ pc[r] = "Slice"
    /\ ibox[r] = Len(IndexArray(r))
    /\ islice[r] = bigEnd(IndexArray(r)[Len(IndexArray(r))])

(* the slice a rank computes last in a time step *)
LastSliceOf(q) == smallEnd(IndexArray(q)[1])

(* what Previous2 holds after the last slice of step s of rank q: Bx and   *)
(* By of the slice above the last one, which with a single slice on the    *)
(* top-most rank is what the step before left in Previous1                 *)
Previous2AfterStep(q, s) ==
    IF LastSliceOf(q) + 1 <= bigEnd(nboxes_z - 1) THEN Tok(s, LastSliceOf(q) + 1)
    ELSE IF s = 0 THEN 0
    ELSE Tok(s - 1, LastSliceOf(q))

(* C18: for every step s and every rank r below the top-most, Previous1    *)
(* and Previous2 of rank r at the start of its first slice of step s are   *)
(* what rank r + 1 held after the last slice of its step s, which it       *)
(* copied to the buffer of its send number s + 1: the fields of the last   *)
(* slice of rank r + 1 in step s, and Bx, By of the slice above.           *)
C18_PreviousSlicesOfTheSameStep ==
    \A r \in Ranks :
        HasUpstream(r) /\ AtFirstSlice(r) =>
            LET s == step[r]
                q == RecvSource(r)
            IN  /\ Len(heap[q]) >= s + 1
                /\ slices[r]["Previous1"] = heap[q][s + 1].data.p1
                /\ slices[r]["Previous2"] = heap[q][s + 1].data.p2
                /\ \A c \in DOMAIN slices[r]["Previous1"] :
                       slices[r]["Previous1"][c] = Tok(s, LastSliceOf(q))
                /\ \A c \in DOMAIN slices[r]["Previous2"] :
                       slices[r]["Previous2"][c] = Previous2AfterStep(q, s)

(* rank r starts the first slice of step 0 when rank r + 1 has already     *)
(* sent the slices of step 1                                               *)
C18_Witness ==
    \E r \in Ranks :
        /\ HasUpstream(r) /\ AtFirstSlice(r)
        /\ step[r] = 0
        /\ Len(heap[RecvSource(r)]) = 2
        /\ slices[r]["Previous1"] = heap[RecvSource(r)][1].data.p1
        /\ heap[RecvSource(r)][2].data.p1 /= heap[RecvSource(r)][1].data.p1

----------------------------------------------------------------------------
(* The pipeline under fair scheduling: every rank keeps taking the steps   *)
(* of its own program. Nothing is assumed of MPI_Progress: a send may      *)
(* complete only when its receive is posted.                               *)

RankStep(r) ==
    \/ Evolve(r)
    \/ Wait(r)
    \/ MPI_Recv(r)
    \/ BeamDeposit(r)
    \/ ProcessSlice(r)
    \/ Notify(r)
    \/ NotifyFinish(r)
    \/ Notify_Isend(r)
    \/ Destructor(r)

(* the runs with at most two slices per rank and at most six steps of a    *)
(* rank in all, without slice deposition                                   *)
InitLive ==
    /\ Init
    /\ ~cfg.slice_deposition
    /\ cfg.nboxes_z_local * cfg.grid_size_z <= 2
    /\ cfg.numprocs_z * cfg.max_step <= 6

SpecLive ==
    /\ InitLive
    /\ [][Next]_vars
    /\ \A r \in 0 .. (MaxProcsZ - 1) : WF_vars(r \in Ranks /\ RankStep(r))

(* every rank has run all its steps and finished its last send *)
RunComplete ==
    /\ AllFinalized
    /\ \A r \in Ranks : step[r] = cfg.max_step /\ m_send_buffer[r] = 0
    /\ \A r \in Ranks : chan[r] = <<>>

----------------------------------------------------------------------------
(* The order of the calls of a slice (Spec) *)

(* the value of component c of role after the slice, where the role has it *)
Holds(S, role, c, v) == c \in DOMAIN S[role] => S[role][c] = v

(* C20: for every slice the driver makes its calls in this order: copy the *)
(* slice in; advance the plasma particles; redistribute them; deposit the  *)
(* plasma currents; boundary-sum; solve Psi, ExmBy and EypBx; deposit the  *)
(* beam current of the slice, in slice-deposition mode only; boundary-sum; *)
(* solve Ez, then Bz; the predictor-corrector loop; commit This to the     *)
(* 3-D field; rotate the slices. A run that the loop aborts has made the   *)
(* calls up to the loop. The slices show the order: the currents deposited *)
(* after the copy-in and the fields solved are in This, and the rotation,  *)
(* coming last, has copied them to Previous1.                              *)
C20_SliceCallsInOrder ==
    \A r \in Ranks :
        LET before == <<"Copy_FtoS", "AdvancePlasmaParticles", "Redistribute",
                        "DepositCurrent", "SumBoundary", "SolvePoissonExmByAndEypBx">>
            beam == IF cfg.slice_deposition THEN <<"DepositCurrentSlice">> ELSE << >>
            upToLoop == <<"SumBoundary", "SolvePoissonEz", "SolvePoissonBz",
                          "PredictorCorrectorLoopToSolveBxBy">>
            after == <<"Copy_StoF", "ShiftSlices">>
        IN  /\ \A i \in DOMAIN zlog[r] :
                   /\ zlog[r][i].op = "SliceEnd" =>
                          zlog[r][i].work = before \o beam \o upToLoop \o after
                   /\ zlog[r][i].op = "Abort" =>
                          zlog[r][i].work = before \o beam \o upToLoop
            /\ zlog[r] /= << >> /\ Last(zlog[r]).op = "SliceEnd" =>
                   LET v == Tok(step[r], Last(zlog[r]).k)
                   IN  /\ \A c \in {"jx", "jy", "jz", "rho", "Psi", "ExmBy", "EypBx",
                                    "Ez", "Bz", "Bx", "By"} :
                              Holds(slices[r], "This", c, v)
                       /\ \A c \in {"Bx", "By", "jx", "jy"} :
                              Holds(slices[r], "Previous1", c, v)
                       /\ \A c \in {"jx", "jy"} : Holds(slices[r], "Next", c, 0)

(* a rank has finished a slice in slice-deposition mode, with the beam     *)
(* deposit as its seventh call of thirteen                                 *)
C20_Witness ==
    \E r \in Ranks :
        /\ cfg.slice_deposition
        /\ zlog[r] /= << >> /\ Last(zlog[r]).op = "SliceEnd"
        /\ Len(Last(zlog[r]).work) = 13
        /\ Last(zlog[r]).work[7] = "DepositCurrentSlice"
        /\ slices[r]["Previous1"]["Bx"] = Tok(step[r], Last(zlog[r]).k)

----------------------------------------------------------------------------
(* What ShiftSlices does to Next (SpecShift) *)

ShiftedInPredictorCorrectorMode == pre.at = "after" /\ ~pre.explicit

(* C21 as stated: at the end of a slice in predictor-corrector mode the    *)
(* components of This that Next shares with it are duplicated into Next.   *)
C21_ThisDuplicatedIntoNext ==
    ShiftedInPredictorCorrectorMode =>
        \A c \in DOMAIN slices[0]["Next"] \cap DOMAIN slices[0]["This"] :
            slices[0]["Next"][c] = pre.S["This"][c]

(* C21, amended: at the end of a slice in predictor-corrector mode         *)
(* ShiftSlices only rotates Previous2 <- Previous1 <- This: it writes      *)
(* Previous1 and Previous2 and nothing else, so Next keeps what it held    *)
(* and takes nothing from This.                                            *)
C21_OnlyThePreviousSlicesAreWritten ==
    ShiftedInPredictorCorrectorMode =>
        /\ \A role \in Roles \ {"Previous1", "Previous2"} : slices[0][role] = pre.S[role]
        /\ \A c \in DOMAIN slices[0]["Next"] : slices[0]["Next"][c] = pre.S["Next"][c]
        /\ \A c \in {"Bx", "By", "jx", "jy"} :
               slices[0]["Previous1"][c] = pre.S["This"][c]

(* a call in predictor-corrector mode rotated jx of This into Previous1,   *)
(* and Next still holds a jx that differs from the one of This             *)
C21_Witness ==
    /\ ShiftedInPredictorCorrectorMode
    /\ pre.S["Previous1"]["jx"] /= pre.S["This"]["jx"]
    /\ slices[0]["Previous1"]["jx"] = pre.S["This"]["jx"]
    /\ slices[0]["Next"]["jx"] /= slices[0]["This"]["jx"]
    /\ slices[0]["Next"]["jy"] /= slices[0]["This"]["jy"]

(***************************************************************************)
(* SpecPCNext: the current on Next in                                      *)
(* Hipace::PredictorCorrectorLoopToSolveBxBy, called slice after slice.    *)
(* An iteration is split where the current has been deposited on Next.     *)
(***************************************************************************)
MaxLoopCalls == 2

(* what one deposition adds to a cell of jx and jy *)
DepositValues == {1, 2}

(* DepositCurrent(m_plasma_container, m_fields, ToSlice::Next, ...): the   *)
(* current of the particles is added to jx and jy of Next                  *)
DepositCurrentNext(S, d) ==
    [S EXCEPT !["Next"] = [c \in DOMAIN S["Next"] |->
                              IF c \in {"jx", "jy"} THEN S["Next"][c] + d
                              ELSE S["Next"][c]]]

(* a faulty variant: only jx is reset *)
ResetNextCurrent_OnlyJx(S) == SetComps(S, "Next", {"jx"}, 0)

(* jx_next.setVal(0.); jy_next.setVal(0.); *)
ResetNextCurrent(S) == SetComps(SetComps(S, "Next", {"jx"}, 0), "Next", {"jy"}, 0)

InitPCNext ==
    /\ IdlePipe
    /\ slices = [r \in Ranks |-> AllocData(FALSE)]
    /\ pre = IdlePre
    /\ mg = IdleMg
    /\ IdleRest
    /\ \E m \in MaxIterValues :
         pcl = [at |-> "start", tol |-> 4, max_iter |-> m, i_iter |-> 0,
                relative_Bfield_error |-> 0, errs |-> <<>>,
                ncalls |-> 1, jx_start |-> <<>>, jx_solve |-> <<>>]

PCNextUnchanged ==
    UNCHANGED <<cfg, pc, step, ibox, islice, m_send_buffer, m_send_request,
                heap, chan, reqDone, zlog, matched, aborted, pre, mg, ats, dec, tile>>

(* the first half of the loop body: i_iter++, the push to the next slice   *)
(* and the deposition on Next; jx_start records jx and jy of Next as the   *)
(* iteration found them                                                    *)
PC_PushAndDeposit ==
    /\ pcl.at = "loop"
    /\ LoopCondition(pcl.relative_Bfield_error, pcl.tol, pcl.i_iter, pcl.max_iter)
    /\ \E d \in DepositValues :
         slices' = [slices EXCEPT ![0] = DepositCurrentNext(@, d)]
    /\ pcl' = [pcl EXCEPT !.at = "deposited", !.i_iter = @ + 1,
                          !.jx_start = Append(@, <<slices[0]["Next"]["jx"],
                                                   slices[0]["Next"]["jy"]>>)]
    /\ PCNextUnchanged

(* the second half: the solves of Bx and By from the current on Next, the  *)
(* new relative_Bfield_error, the mixing, and the reset of jx and jy of    *)
(* Next; jx_solve records the current the solves have read                 *)
PC_SolveAndReset ==
    /\ pcl.at = "deposited"
    /\ \E e \in ErrValues :
         pcl' = [pcl EXCEPT !.at = "loop",
                            !.relative_Bfield_error = e,
                            !.errs = Append(@, e),
                            !.jx_solve = Append(@, <<slices[0]["Next"]["jx"],
                                                     slices[0]["Next"]["jy"]>>)]
    /\ slices' = [slices EXCEPT ![0] = ResetNextCurrent(@)]
    /\ PCNextUnchanged

(* the rest of the slice loop of Evolve and the call for the next slice:   *)
(* the copy to the 3-D field and ShiftSlices, which leave Next alone       *)
PC_NextSlice ==
    /\ pcl.at = "returned"
    /\ pcl.ncalls < MaxLoopCalls
    /\ slices' = [slices EXCEPT ![0] = ShiftSlices(@, FALSE)]
    /\ pcl' = [pcl EXCEPT !.at = "start", !.ncalls = @ + 1, !.errs = <<>>,
                          !.jx_start = <<>>, !.jx_solve = <<>>]
    /\ PCNextUnchanged

NextPCNext ==
    \/ PC_Enter
    \/ PC_PushAndDeposit
    \/ PC_SolveAndReset
    \/ PC_LoopExit
    \/ PC_Abort
    \/ PC_Return
    \/ PC_NextSlice

SpecPCNext == InitPCNext /\ [][NextPCNext]_vars

(* C22: at the start of every predictor-corrector iteration, just before   *)
(* the current is deposited on Next, and whenever the loop returns, jx and *)
(* jy of Next are zero, in every slice: the current an iteration deposits  *)
(* is the only current its solves read.                                    *)
C22_NextCurrentIsZero ==
    /\ \A k \in DOMAIN pcl.jx_start : pcl.jx_start[k] = <<0, 0>>
    /\ (pcl.at = "loop" \/ pcl.at = "after" \/ pcl.at = "returned") =>
          slices[0]["Next"]["jx"] = 0 /\ slices[0]["Next"]["jy"] = 0
    /\ \A k \in DOMAIN pcl.jx_solve :
          pcl.jx_solve[k][1] \in DepositValues /\ pcl.jx_solve[k][2] \in DepositValues

(* the loop has returned for the second slice after two iterations, each   *)
(* of which read the current it had deposited                              *)
C22_Witness ==
    /\ pcl.at = "returned"
    /\ pcl.ncalls = 2
    /\ pcl.i_iter = 2
    /\ pcl.jx_start = << <<0, 0>>, <<0, 0>> >>
    /\ pcl.jx_solve[1] = <<2, 2>> /\ pcl.jx_solve[2] = <<1, 1>>
    /\ slices[0]["Next"]["jx"] = 0

(***************************************************************************)
(* SpecMix: Hipace::MixAndShiftBfields and Fields::MixAndShiftBfields on   *)
(* one cell of the arrays (amrex::MultiFab::LinComb and Copy act cell by   *)
(* cell).  Reals are exact fractions <<numerator, denominator>>.           *)
(***************************************************************************)
Frac(n) == <<n, 1>>
FracAdd(x, y) == <<x[1] * y[2] + y[1] * x[2], x[2] * y[2]>>
FracMul(x, y) == <<x[1] * y[1], x[2] * y[2]>>
FracEq(x, y) == x[1] * y[2] = y[1] * x[2]
OneMinus(x) == <<x[2] - x[1], x[2]>>

(* values of B, B_iter and B_prev_iter in the cell *)
BValues == {Frac(-1), Frac(0), Frac(2)}

(* values of relative_Bfield_error and relative_Bfield_error_prev_iter *)
MixErrValues == {0, 3, 5}

(* values of m_predcorr_B_mixing_factor: 0.1 (the default), 0.5 and 1 *)
MixingFactors == {<<1, 10>>, <<1, 2>>, <<1, 1>>}

(* a faulty variant: the two weights are exchanged *)
MixWeights_Exchanged(relative_Bfield_error, relative_Bfield_error_prev_iter) ==
    IF relative_Bfield_error # 0 \/ relative_Bfield_error_prev_iter # 0
    THEN [weight_B_iter |-> <<relative_Bfield_error,
                              relative_Bfield_error + relative_Bfield_error_prev_iter>>,
          weight_B_prev_iter |-> <<relative_Bfield_error_prev_iter,
                              relative_Bfield_error + relative_Bfield_error_prev_iter>>]
    ELSE [weight_B_iter |-> <<1, 2>>, weight_B_prev_iter |-> <<1, 2>>]

(* weight_B_iter and weight_B_prev_iter *)
MixWeights(relative_Bfield_error, relative_Bfield_error_prev_iter) ==
    IF relative_Bfield_error # 0 \/ relative_Bfield_error_prev_iter # 0
    THEN [weight_B_iter |-> <<relative_Bfield_error_prev_iter,
                              relative_Bfield_error + relative_Bfield_error_prev_iter>>,
          weight_B_prev_iter |-> <<relative_Bfield_error,
                              relative_Bfield_error + relative_Bfield_error_prev_iter>>]
    ELSE [weight_B_iter |-> <<1, 2>>, weight_B_prev_iter |-> <<1, 2>>]

(* amrex::MultiFab::LinComb: a*x + b*y *)
LinComb(a, x, b, y) == FracAdd(FracMul(a, x), FracMul(b, y))

(* the three array operations of MixAndShiftBfields, in their order; the   *)
(* mixed iterate is held in B_prev_iter until the final Copy               *)
MixAndShiftBfields(B, B_iter, B_prev_iter, relative_Bfield_error, relative_Bfield_error_prev_iter, predcorr_B_mixing_factor) ==
    LET w == MixWeights(relative_Bfield_error, relative_Bfield_error_prev_iter)
        mixed == LinComb(w.weight_B_iter, B_iter, w.weight_B_prev_iter, B_prev_iter)
        B_mixed == LinComb(OneMinus(predcorr_B_mixing_factor), B,
                           predcorr_B_mixing_factor, mixed)
    IN  [B |-> B_mixed, B_iter |-> B_iter, B_prev_iter |-> B_iter]

MixState(at, B, B_iter, B_prev_iter, err, err_prev, lambda, old) ==
    [at |-> at, B |-> B, B_iter |-> B_iter, B_prev_iter |-> B_prev_iter,
     relative_Bfield_error |-> err, relative_Bfield_error_prev_iter |-> err_prev,
     predcorr_B_mixing_factor |-> lambda, old |-> old]

InitMix ==
    /\ IdlePipe
    /\ slices = [r \in Ranks |-> AllocData(FALSE)]
    /\ pre = IdlePre
    /\ mg = IdleMg
    /\ IdleRest
    /\ \E B \in BValues, B_iter \in BValues, B_prev_iter \in BValues,
          err \in MixErrValues, err_prev \in MixErrValues, lambda \in MixingFactors :
         pcl = MixState("solved", B, B_iter, B_prev_iter, err, err_prev, lambda,
                        [B |-> B, B_iter |-> B_iter, B_prev_iter |-> B_prev_iter])

(* one call MixAndShiftBfields(B_iter, B_prev_iter, comp, err, err_prev)   *)
MixAndShiftBfieldsCall ==
    /\ pcl.at = "solved"
    /\ LET r == MixAndShiftBfields(pcl.B, pcl.B_iter, pcl.B_prev_iter,
                                   pcl.relative_Bfield_error,
                                   pcl.relative_Bfield_error_prev_iter,
                                   pcl.predcorr_B_mixing_factor)
       IN  pcl' = [pcl EXCEPT !.at = "mixed", !.B = r.B, !.B_iter = r.B_iter,
                              !.B_prev_iter = r.B_prev_iter]
    /\ UNCHANGED <<cfg, pc, step, ibox, islice, slices, m_send_buffer, m_send_request,
                   heap, chan, reqDone, zlog, matched, aborted, pre, mg, ats, dec, tile>>

NextMix == MixAndShiftBfieldsCall

SpecMix == InitMix /\ [][NextMix]_vars

(* the claimed update of B with weight a of B_new *)
MixedWith(a) ==
    LinComb(OneMinus(pcl.predcorr_B_mixing_factor), pcl.old.B,
            pcl.predcorr_B_mixing_factor,
            LinComb(a, pcl.old.B_iter, OneMinus(a), pcl.old.B_prev_iter))

ErrorRatio ==
    <<pcl.relative_Bfield_error_prev_iter,
      pcl.relative_Bfield_error + pcl.relative_Bfield_error_prev_iter>>

(* C23 as stated: B = (1-lambda)*B + lambda*[a*B_new + (1-a)*B_prev_iter]  *)
(* with a = err_prev/(err + err_prev) when the errors are nonzero and      *)
(* a = 0.5 otherwise; B_new is unchanged and B_prev_iter ends as B_new.    *)
C23_MixWithHalfOtherwise ==
    pcl.at = "mixed" =>
       /\ FracEq(pcl.B,
                 MixedWith(IF pcl.relative_Bfield_error # 0
                              /\ pcl.relative_Bfield_error_prev_iter # 0
                           THEN ErrorRatio ELSE <<1, 2>>))
       /\ pcl.B_iter = pcl.old.B_iter
       /\ pcl.B_prev_iter = pcl.old.B_iter

(* C23 amended: a = err_prev/(err + err_prev) unless both errors are zero, *)
(* and a = 0.5 when both are zero; the weights sum to 1, B_new is          *)
(* unchanged and B_prev_iter ends as B_new.                                *)
C23_MixWithHalfWhenBothZero ==
    pcl.at = "mixed" =>
       /\ FracEq(pcl.B,
                 MixedWith(IF pcl.relative_Bfield_error # 0
                              \/ pcl.relative_Bfield_error_prev_iter # 0
                           THEN ErrorRatio ELSE <<1, 2>>))
       /\ LET w == MixWeights(pcl.relative_Bfield_error,
                              pcl.relative_Bfield_error_prev_iter)
          IN  FracEq(FracAdd(w.weight_B_iter, w.weight_B_prev_iter), Frac(1))
       /\ pcl.B_iter = pcl.old.B_iter
       /\ pcl.B_prev_iter = pcl.old.B_iter

(* the new error is zero, the previous one is not, and the two iterates    *)
(* differ: B is mixed with B_new alone, 0.9*(-1) + 0.1*2 = -0.7            *)
C23_Witness ==
    /\ pcl.at = "mixed"
    /\ pcl.relative_Bfield_error = 0
    /\ pcl.relative_Bfield_error_prev_iter = 3
    /\ pcl.predcorr_B_mixing_factor = <<1, 10>>
    /\ pcl.old = [B |-> Frac(-1), B_iter |-> Frac(2), B_prev_iter |-> Frac(0)]
    /\ FracEq(pcl.B, <<-7, 10>>)
    /\ pcl.B_prev_iter = Frac(2)

(***************************************************************************)
(* SpecPush: AdvancePlasmaParticles on one particle of a tile, push after  *)
(* push, with and without HIPACE_USE_AB5_PUSH.  Lengths are integers;      *)
(* dz is 720 of them, so that the AB5 coefficients times dz are integers.  *)
(***************************************************************************)
MaxPushes == 6

dz == 720
nsub == 4
clight == 1000

(* ab5_coeffs: a1..a5 times dz *)
ab5_coeffs == <<1901, -2774, 2616, -1274, 251>>

(* half width of the transverse domain *)
prob_hi == 30000

(* the fields gathered at the particle: the force on ux and on uy *)
GatheredFields == {<<1, 0>>, <<-1, 1>>}

(* PlasmaMomentumPush: the derivatives of ux, uy and psi along z *)
PlasmaMomentumPush(ux, uy, psi, f) ==
    [dz_ux |-> f[1], dz_uy |-> f[2], dz_psi |-> 0]

(* the substeps of the momentum push: isub = 0 .. n-1 with step sdz; the   *)
(* second-order term vanishes for a force that is constant over the step   *)
RECURSIVE MomentumSubsteps(_, _, _, _)
MomentumSubsteps(n, u, f, sdz) ==
    IF n = 0 THEN u
    ELSE LET d == PlasmaMomentumPush(u.ux, u.uy, u.psi, f)
         IN  MomentumSubsteps(n - 1,
                              [ux |-> u.ux + sdz * d.dz_ux,
                               uy |-> u.uy + sdz * d.dz_uy,
                               psi |-> u.psi + sdz * d.dz_psi], f, sdz)

(* EnforceBCandSetPos: the position is set; a particle that has left the   *)
(* transverse domain is marked invalid and TRUE is returned                *)
setPositionEnforceBC(p, xp, yp) ==
    LET q == [p EXCEPT !.x = xp, !.y = yp]
        invalid == xp < -prob_hi \/ xp > prob_hi \/ yp < -prob_hi \/ yp > prob_hi
    IN  [p |-> IF invalid THEN [q EXCEPT !.id = IF p.id < 0 THEN p.id ELSE -p.id] ELSE q,
         invalid |-> invalid]

(* if (!temp_slice): update values of the last non temp slice *)
UpdateHalfStep(p, temp_slice, u, xp, yp) ==
    IF temp_slice THEN p
    ELSE [p EXCEPT !.ux_half_step = u.ux, !.uy_half_step = u.uy,
                   !.psi_half_step = u.psi, !.x_prev = xp, !.y_prev = yp]

(* the particle body without HIPACE_USE_AB5_PUSH *)
PushSubstepped(p, f, temp_slice) ==
    LET sdz == dz \div nsub
        u == MomentumSubsteps(nsub, [ux |-> p.ux_half_step, uy |-> p.uy_half_step,
                                     psi |-> p.psi_half_step], f, sdz)
        xp == p.x_prev + (dz * (u.ux \div u.psi)) \div clight
        yp == p.y_prev + (dz * (u.uy \div u.psi)) \div clight
        bc == setPositionEnforceBC(p, xp, yp)
        h == MomentumSubsteps(nsub \div 2, u, f, sdz)
    IN  IF bc.invalid THEN bc.p
        ELSE [UpdateHalfStep(bc.p, temp_slice, u, xp, yp)
                 EXCEPT !.ux = h.ux, !.uy = h.uy, !.psi = h.psi]

(* the force terms written to slot 1 *)
ForceTerms(p, f) ==
    LET d == PlasmaMomentumPush(p.ux_half_step, p.uy_half_step, p.psi_half_step, f)
    IN  [Fx |-> (p.ux_half_step \div p.psi_half_step) \div clight,
         Fy |-> (p.uy_half_step \div p.psi_half_step) \div clight,
         Fux |-> d.dz_ux, Fuy |-> d.dz_uy, Fpsi |-> d.dz_psi]

RECURSIVE AB5Sum(_, _, _)
AB5Sum(F, comp, iab) ==
    IF iab = 0 THEN 0
    ELSE AB5Sum(F, comp, iab - 1) + ab5_coeffs[iab] * F[iab][comp]

(* the particle body with HIPACE_USE_AB5_PUSH; F[k] is the array of slot k *)
PushAB5(p, F, f, temp_slice) ==
    LET F1 == [F EXCEPT ![1] = ForceTerms(p, f)]
        xp == p.x_prev + AB5Sum(F1, "Fx", 5)
        yp == p.y_prev + AB5Sum(F1, "Fy", 5)
        u == [ux |-> p.ux_half_step + AB5Sum(F1, "Fux", 5),
              uy |-> p.uy_half_step + AB5Sum(F1, "Fuy", 5),
              psi |-> p.psi_half_step + AB5Sum(F1, "Fpsi", 5)]
        bc == setPositionEnforceBC(p, xp, yp)
    IN  [F |-> F1,
         p |-> IF bc.invalid THEN bc.p
               ELSE [UpdateHalfStep(bc.p, temp_slice, u, xp, yp)
                        EXCEPT !.ux = u.ux, !.uy = u.uy, !.psi = u.psi]]

(* rd[a].swap(rd[b]): the two handles exchange their arrays *)
SwapHandles(rd, a, b) == [rd EXCEPT ![a] = rd[b], ![b] = rd[a]]

(* a faulty variant: the swaps run from slot 1 upwards *)
ShiftForceTerms_Ascending(rd) ==
    SwapHandles(SwapHandles(SwapHandles(SwapHandles(rd, 1, 2), 2, 3), 3, 4), 4, 5)

(* shift force terms: swap 5-4, 4-3, 3-2, 2-1 *)
ShiftForceTerms(rd) ==
    SwapHandles(SwapHandles(SwapHandles(SwapHandles(rd, 5, 4), 4, 3), 3, 2), 2, 1)

ZeroForce == [Fx |-> 0, Fy |-> 0, Fux |-> 0, Fuy |-> 0, Fpsi |-> 0]

(* what a push must start from: the state of the last non temp slice *)
Persistent(p, rd, buf) ==
    [id |-> p.id, x_prev |-> p.x_prev, y_prev |-> p.y_prev,
     ux_half_step |-> p.ux_half_step, uy_half_step |-> p.uy_half_step,
     psi_half_step |-> p.psi_half_step,
     history |-> [k \in 2..5 |-> buf[rd[k]]]]

InitialParticles ==
    {[id |-> 1, x |-> x0, y |-> 0, ux |-> 0, uy |-> 0, psi |-> 1,
      x_prev |-> x0, y_prev |-> 0, ux_half_step |-> 0, uy_half_step |-> 0,
      psi_half_step |-> 1] : x0 \in {0, 29000}}

InitPush ==
    /\ IdlePipe
    /\ slices = [r \in Ranks |-> AllocData(FALSE)]
    /\ pre = IdlePre
    /\ pcl = IdlePcl
    /\ mg = IdleMg
    /\ ats = IdleAts
    /\ dec = IdleDec
    /\ \E ab5 \in BOOLEAN, p \in InitialParticles :
         LET rd == [k \in 1..5 |-> k]
             buf == [b \in 1..5 |-> ZeroForce]
         IN  tile = [at |-> "push", ab5 |-> ab5, p |-> p, rd |-> rd, buf |-> buf,
                     npush |-> 0, temp_slice |-> FALSE, before_rd |-> rd,
                     was_valid |-> TRUE,
                     last |-> Persistent(p, rd, buf), evals |-> <<>>]

(* one call AdvancePlasmaParticles(plasma, fields, gm, temp_slice, lev, ...) *)
AdvancePlasmaParticles ==
    /\ tile.at = "push"
    /\ tile.npush < MaxPushes
    /\ \E temp_slice \in BOOLEAN, f \in GatheredFields :
         LET p == tile.p
             F == [k \in 1..5 |-> tile.buf[tile.rd[k]]]
             skip == p.id < 0
             r == IF skip THEN [p |-> p, F |-> F]
                  ELSE IF tile.ab5 THEN PushAB5(p, F, f, temp_slice)
                  ELSE [p |-> PushSubstepped(p, f, temp_slice), F |-> F]
             buf1 == [tile.buf EXCEPT ![tile.rd[1]] = r.F[1]]
             rd1 == IF tile.ab5 /\ ~temp_slice THEN ShiftForceTerms(tile.rd) ELSE tile.rd
         IN  tile' = [tile EXCEPT
                        !.p = r.p, !.buf = buf1, !.rd = rd1,
                        !.npush = @ + 1, !.temp_slice = temp_slice,
                        !.before_rd = tile.rd,
                        !.was_valid = ~skip,
                        !.last = IF temp_slice THEN @ ELSE Persistent(r.p, rd1, buf1),
                        !.evals = IF temp_slice \/ skip \/ ~tile.ab5 THEN @
                                  ELSE Append(@, r.F[1])]
    /\ UNCHANGED <<cfg, pc, step, ibox, islice, slices, m_send_buffer, m_send_request,
                   heap, chan, reqDone, zlog, matched, aborted, pre, pcl, mg, ats, dec>>

NextPush == AdvancePlasmaParticles

SpecPush == InitPush /\ [][NextPush]_vars

(* C24: a push with temp_slice = true leaves the persistent state of the   *)
(* particle (x_prev, y_prev, the half-step momenta and psi, the validity   *)
(* flag, the AB5 history slots 2 to 5) as the last non-temporary push left *)
(* it, so that the next non-temporary push starts from the same state.     *)
C24_TemporaryPushKeepsPersistentState ==
    Persistent(tile.p, tile.rd, tile.buf) = tile.last

(* the handles after the push are the handles before it, moved up by one   *)
HandlesRotated ==
    /\ \A k \in 1..4 : tile.rd[k + 1] = tile.before_rd[k]
    /\ tile.rd[1] = tile.before_rd[5]

(* slot k holds the force evaluated at the (k-1)-th last non-temporary push *)
HistoryInOrder ==
    \A k \in 2..5 :
       Len(tile.evals) >= k - 1 =>
          tile.buf[tile.rd[k]] = tile.evals[Len(tile.evals) - (k - 2)]

(* C30 as stated: in AB5 mode the five history slots are rotated on every  *)
(* plasma push: afterwards slot k+1 holds what slot k held (k = 1..4) and  *)
(* slot 1 is free.                                                         *)
C30_RotatedOnEveryPush ==
    (tile.at = "push" /\ tile.ab5 /\ tile.npush > 0) => HandlesRotated

(* C30 amended: the slots are rotated, by swapping handles, on every       *)
(* non-temporary push and on no temporary one; for a valid particle slot k *)
(* (k = 2..5) then holds the force evaluated at the (k-1)-th last          *)
(* non-temporary push, and slot 1 takes the force of the next push.        *)
C30_RotatedOnEveryNonTemporaryPush ==
    (tile.at = "push" /\ tile.ab5 /\ tile.npush > 0) =>
       /\ IF tile.temp_slice THEN tile.rd = tile.before_rd ELSE HandlesRotated
       /\ {tile.rd[k] : k \in 1..5} = 1..5
       /\ tile.p.id > 0 => HistoryInOrder

(* five non-temporary pushes and a temporary one of a valid particle, the  *)
(* last one not temporary; the five forces evaluated are not all alike     *)
C30_Witness ==
    /\ tile.at = "push" /\ tile.ab5
    /\ tile.p.id > 0
    /\ ~tile.temp_slice
    /\ Len(tile.evals) = 5
    /\ tile.npush = 6
    /\ tile.evals[1] # tile.evals[2] /\ tile.evals[4] # tile.evals[5]
    /\ tile.buf[tile.rd[5]] = tile.evals[2]
    /\ tile.buf[tile.rd[2]] = tile.evals[5]

(***************************************************************************)
(* SpecPredict: the loop over niter of AdaptiveTimeStep::CalculateFromMinUz *)
(* for one beam, with the iterations it makes written down one by one.     *)
(***************************************************************************)
MaxPredictProcs == 3

(* plasmas.maxDensity(c * new_time): the density is lo before the time     *)
(* edge and hi from it on                                                  *)
DensityProfiles ==
    {[edge |-> 100, lo |-> 1, hi |-> 4], [edge |-> 100, lo |-> 4, hi |-> 1],
     [edge |-> 0, lo |-> 1, hi |-> 1]}

maxDensity(profile, z) == IF z < profile.edge THEN profile.lo ELSE profile.hi

(* the iterations of the loop, in their order: what each one has read and  *)
(* computed                                                                *)
RECURSIVE PredictIterations(_, _, _, _, _, _, _, _)
PredictIterations(i, n, min_uz0, new_dt0, new_time0, MinAcc, profile, c) ==
    IF i >= n THEN <<>>
    ELSE LET plasma_density == maxDensity(profile, new_time0)
             min_uz == Max(min_uz0 + MinAcc * new_dt0, c.threshold_uz \div 1000)
             omega_p == 100 * Sqrt(plasma_density)
             dt_new == (TwoPi * 100 * Sqrt(2 * min_uz)) \div (omega_p * c.nt_per_betatron)
             new_time == new_time0 + dt_new
         IN  <<[plasma_density |-> plasma_density, min_uz |-> min_uz,
                new_dt |-> dt_new, new_time |-> new_time]>>
             \o PredictIterations(i + 1, n, min_uz, dt_new, new_time, MinAcc, profile, c)

PredictConfigs ==
    [adaptive_predict_step : BOOLEAN, numprocs : 1 .. MaxPredictProcs,
     threshold_uz : {1, 20}, nt_per_betatron : {20}]

InitPredict ==
    /\ IdlePipe
    /\ slices = [r \in Ranks |-> AllocData(FALSE)]
    /\ pre = IdlePre
    /\ pcl = IdlePcl
    /\ mg = IdleMg
    /\ dec = IdleDec
    /\ tile = IdleTile
    /\ \E c \in PredictConfigs, MinAcc \in {0, 1, 0 - 1}, min_uz \in {2, 50},
          profile \in DensityProfiles :
         ats = [at |-> "predict", c |-> c, MinAcc |-> MinAcc, min_uz |-> min_uz,
                dt |-> 30, t |-> 0, profile |-> profile, iters |-> <<>>, new_dt |-> 30]

(* the loop for one beam: new_dts[ibeam] and the iterations made *)
PredictStep ==
    /\ ats.at = "predict"
    /\ LET tr == PredictIterations(0, niter(ats.c), ats.min_uz, ats.dt, ats.t,
                                   ats.MinAcc, ats.profile, ats.c)
       IN  ats' = [ats EXCEPT
                     !.at = "predicted",
                     !.iters = tr,
                     !.new_dt = PredictLoop(0, niter(ats.c), ats.min_uz, ats.dt, ats.dt,
                                            ats.MinAcc,
                                            [k \in 0 .. (Len(tr) - 1) |->
                                                tr[k + 1].plasma_density], ats.c)]
    /\ DtUnchanged

NextPredict == PredictStep

SpecPredict == InitPredict /\ [][NextPredict]_vars

(* every iteration starts from the values the one before it has left: the  *)
(* density is taken at the predicted time, min_uz grows by MinAcc times    *)
(* the time step in hand, the new time step resolves the betatron period   *)
(* and the predicted time moves on by it                                   *)
IterationsChained ==
    \A i \in DOMAIN ats.iters :
       LET time0 == IF i = 1 THEN ats.t ELSE ats.iters[i - 1].new_time
           dt0 == IF i = 1 THEN ats.dt ELSE ats.iters[i - 1].new_dt
           uz0 == IF i = 1 THEN ats.min_uz ELSE ats.iters[i - 1].min_uz
           it == ats.iters[i]
       IN  /\ it.plasma_density = maxDensity(ats.profile, time0)
           /\ it.min_uz = Max(uz0 + ats.MinAcc * dt0, ats.c.threshold_uz \div 1000)
           /\ it.new_dt = (TwoPi * 100 * Sqrt(2 * it.min_uz))
                             \div (100 * Sqrt(it.plasma_density) * ats.c.nt_per_betatron)
           /\ it.new_time = time0 + it.new_dt

(* C25 as stated: in adaptive mode the prediction is iterated numprocs     *)
(* times, each iteration re-evaluating the density at the predicted time,  *)
(* incrementing gamma_min, recomputing dt_new and advancing the time.      *)
C25_IteratedNumprocsTimes ==
    ats.at = "predicted" =>
       Len(ats.iters) = ats.c.numprocs /\ IterationsChained

(* C25 amended: the prediction is iterated numprocs times when             *)
(* adaptive_predict_step is set and once when it is not; each iteration    *)
(* re-evaluates the density at the predicted time, increments gamma_min by *)
(* min_acc times the time step in hand, recomputes dt_new and advances the *)
(* predicted time by it.                                                   *)
C25_IteratedNumprocsTimesWhenPredicting ==
    ats.at = "predicted" =>
       /\ Len(ats.iters) = (IF ats.c.adaptive_predict_step THEN ats.c.numprocs ELSE 1)
       /\ IterationsChained
       /\ ats.new_dt \in {ats.dt} \cup {ats.iters[i].new_dt : i \in DOMAIN ats.iters}

(* three iterations with a growing gamma_min across the density edge *)
C25_Witness ==
    /\ ats.at = "predicted"
    /\ ats.c.adaptive_predict_step /\ ats.c.numprocs = 3
    /\ Len(ats.iters) = 3
    /\ ats.MinAcc = 1
    /\ ats.iters[1].plasma_density # ats.iters[3].plasma_density
    /\ ats.iters[1].min_uz < ats.iters[2].min_uz
    /\ ats.iters[2].min_uz < ats.iters[3].min_uz
    /\ ats.iters[1].new_time < ats.iters[2].new_time
    /\ ats.new_dt = ats.iters[3].new_dt

(***************************************************************************)
(* SpecAlloc: the guard cells and the allocation of Fields::AllocData on   *)
(* level 0.  A box is a pair of corners <<lo, hi>> of cell indices.        *)
(***************************************************************************)
MaxSliceCells == 3

(* a faulty variant: the extra cell for the transverse derivative is left out *)
nguards_xy_NoExtraCell(depos_order_xy) == (depos_order_xy + 1) \div 2

(* int nguards_xy = (Hipace::m_depos_order_xy + 1) / 2 + 1 *)
nguards_xy(depos_order_xy) == (depos_order_xy + 1) \div 2 + 1

(* the guard cells set at the head of AllocData *)
SliceGuards(depos_order_xy, extended_solve) ==
    LET n == nguards_xy(depos_order_xy)
        m_slices_nguards == <<n, n, 0>>
    IN  [m_slices_nguards |-> m_slices_nguards,
         m_poisson_nguards |-> IF extended_solve THEN m_slices_nguards ELSE <<0, 0, 0>>,
         m_exmby_eypbx_nguard |-> <<n - 1, n - 1, 0>>,
         m_source_nguard |-> IF extended_solve THEN <<0 - n, 0 - n, 0>> ELSE <<0, 0, 0>>]

(* the box of a FabArray defined on bx with ng guard cells *)
GrownBox(bx, ng) ==
    <<[d \in 1..3 |-> bx[1][d] - ng[d]], [d \in 1..3 |-> bx[2][d] + ng[d]]>>

(* all components of all slices, as (slice, name) *)
SliceComponents(explicit) ==
    UNION {{<<role, c>> : c \in Comps(explicit, role)} : role \in Roles}

(* m_slices[lev].define(slice_ba, slice_dm, N_Comps, m_slices_nguards) and *)
(* setVal(0, m_slices_nguards): every component lies on the grown box      *)
DefineSlices(slice_box, explicit, ng) ==
    [sc \in SliceComponents(explicit) |->
        [box |-> GrownBox(slice_box, ng), val |-> 0]]

(* the slice boxes: nx by ny cells, one cell thick, at slice iz *)
SliceBoxes ==
    {<< <<0, 0, iz>>, <<nx - 1, ny - 1, iz>> >> :
        nx \in 1..MaxSliceCells, ny \in 1..MaxSliceCells, iz \in {0}}

InitAlloc ==
    /\ IdlePipe
    /\ slices = [r \in Ranks |-> AllocData(FALSE)]
    /\ pcl = IdlePcl
    /\ mg = IdleMg
    /\ IdleRest
    /\ \E d \in 0..3, ext \in BOOLEAN, explicit \in BOOLEAN, bx \in SliceBoxes :
         pre = [at |-> "construct", depos_order_xy |-> d, extended_solve |-> ext,
                explicit |-> explicit, slice_box |-> bx,
                guards |-> [m_slices_nguards |-> <<0 - 1, 0 - 1, 0 - 1>>,
                            m_poisson_nguards |-> <<0 - 1, 0 - 1, 0 - 1>>,
                            m_exmby_eypbx_nguard |-> <<0, 0, 0>>,
                            m_source_nguard |-> <<0, 0, 0>>],
                m_slices |-> <<>>]

(* Fields::AllocData(0, geom, slice_ba, slice_dm, bin_size) *)
AllocDataCall ==
    /\ pre.at = "construct"
    /\ LET g == SliceGuards(pre.depos_order_xy, pre.extended_solve)
       IN  pre' = [pre EXCEPT !.at = "allocated", !.guards = g,
                              !.m_slices = DefineSlices(pre.slice_box, pre.explicit,
                                                        g.m_slices_nguards)]
    /\ UNCHANGED <<cfg, pc, step, ibox, islice, slices, m_send_buffer, m_send_request,
                   heap, chan, reqDone, zlog, matched, aborted, pcl, mg, ats, dec, tile>>

NextAlloc == AllocDataCall

SpecAlloc == InitAlloc /\ [][NextAlloc]_vars

(* every slice array lies on the slice box grown by n cells in x and in y  *)
(* and by none in z                                                        *)
AllOnBoxGrownBy(n) ==
    /\ DOMAIN pre.m_slices # {}
    /\ \A sc \in DOMAIN pre.m_slices :
          LET b == pre.m_slices[sc].box
          IN  /\ b[1][1] = pre.slice_box[1][1] - n /\ b[2][1] = pre.slice_box[2][1] + n
              /\ b[1][2] = pre.slice_box[1][2] - n /\ b[2][2] = pre.slice_box[2][2] + n
              /\ b[1][3] = pre.slice_box[1][3] /\ b[2][3] = pre.slice_box[2][3]

(* C26 as stated: for every deposition order 0..3 all slice arrays lie on  *)
(* one common box with ceil((depos_order_xy+1)/2)+1 ghost cells in x and y *)
(* and none in z.                                                          *)
C26_GhostCellsRoundedUp ==
    pre.at = "allocated" => AllOnBoxGrownBy((pre.depos_order_xy + 2) \div 2 + 1)

(* C26 amended: the number of ghost cells is floor((depos_order_xy+1)/2)+1, *)
(* that is 1, 2, 2 and 3 for the orders 0, 1, 2 and 3.                     *)
C26_GhostCellsRoundedDown ==
    pre.at = "allocated" =>
       /\ AllOnBoxGrownBy(<<1, 2, 2, 3>>[pre.depos_order_xy + 1])
       /\ \A s1 \in DOMAIN pre.m_slices, s2 \in DOMAIN pre.m_slices :
             pre.m_slices[s1].box = pre.m_slices[s2].box

(* order 2 on a slice of 3 by 2 cells: the arrays reach from -2 to 4 in x  *)
C26_Witness ==
    /\ pre.at = "allocated"
    /\ pre.depos_order_xy = 2
    /\ pre.slice_box = << <<0, 0, 0>>, <<2, 1, 0>> >>
    /\ \E sc \in DOMAIN pre.m_slices :
          pre.m_slices[sc].box = << <<0 - 2, 0 - 2, 0>>, <<4, 3, 0>> >>

(***************************************************************************)
(* SpecLevels: the level hierarchy built by MultiGrid::MultiGrid and the   *)
(* levels MultiGrid::vcycle and MultiGrid::bottomsolve work on, with and   *)
(* without AMREX_USE_GPU.  A level domain is a box from 0 to hi in x and y *)
(* of cells or of nodes.                                                   *)
(***************************************************************************)
MaxDomainLen == 70

n_cell_single == 32

(* the number of points of a box in x and y, and their product *)
BoxLength(b) == <<b.hi[1] + 1, b.hi[2] + 1>>
BoxVolume(b) == (b.hi[1] + 1) * (b.hi[2] + 1)

(* amrex::coarsen(b, IntVect(2,2,1)) and Box::refine: the upper corner of  *)
(* a nodal box is rounded up                                               *)
CoarsenBox(b) ==
    [b EXCEPT !.hi = IF b.cell THEN <<b.hi[1] \div 2, b.hi[2] \div 2>>
                     ELSE <<(b.hi[1] + 1) \div 2, (b.hi[2] + 1) \div 2>>]
RefineBox(b) ==
    [b EXCEPT !.hi = IF b.cell THEN <<2 * b.hi[1] + 1, 2 * b.hi[2] + 1>>
                     ELSE <<2 * b.hi[1], 2 * b.hi[2]>>]

(* Box::coarsenable(IntVect(2,2,1), min_width) *)
coarsenable(b, min_width) ==
    /\ BoxLength(b)[1] >= 2 * min_width
    /\ BoxLength(b)[2] >= 2 * min_width
    /\ RefineBox(CoarsenBox(b)) = b

(* m_domain[0]: cells for an even length, nodes (grown by 2) for an odd one *)
FinestDomain(a_domain_len) ==
    IF a_domain_len[1] % 2 = 0
    THEN [hi |-> <<a_domain_len[1] - 1, a_domain_len[2] - 1>>, cell |-> TRUE]
    ELSE [hi |-> <<a_domain_len[1] + 1, a_domain_len[2] + 1>>, cell |-> FALSE]

(* for (int i = 0; i < 30; ++i): push the coarsened box while coarsenable *)
RECURSIVE CoarsenLevels(_, _)
CoarsenLevels(m_domain, i) ==
    LET back == m_domain[Len(m_domain)]
        min_width == IF back.cell THEN 2 ELSE 4
    IN  IF i < 30 /\ coarsenable(back, min_width)
        THEN CoarsenLevels(Append(m_domain, CoarsenBox(back)), i + 1)
        ELSE m_domain

(* std::find_if over m_domain and std::distance: the first level (from 0)  *)
(* of at most n_cell_single^2 points, the number of levels if there is none *)
FirstSmallLevel(m_domain) ==
    LET small == {l \in 1..Len(m_domain) :
                     BoxVolume(m_domain[l]) <= n_cell_single * n_cell_single}
    IN  IF small = {} THEN Len(m_domain)
        ELSE (CHOOSE l \in small : \A k \in small : l <= k) - 1

(* a faulty variant: the finest level may be a single-block level *)
single_block_level_begin_FromZero(m_domain, gpu) ==
    IF gpu THEN FirstSmallLevel(m_domain) ELSE Len(m_domain) - 1

(* m_single_block_level_begin *)
single_block_level_begin(m_domain, gpu) ==
    IF gpu THEN Max(1, FirstSmallLevel(m_domain)) ELSE Len(m_domain) - 1

DomainLens == 2..MaxDomainLen

InitLevels ==
    /\ IdlePipe
    /\ slices = [r \in Ranks |-> AllocData(FALSE)]
    /\ pre = IdlePre
    /\ pcl = IdlePcl
    /\ IdleRest
    /\ \E lx \in DomainLens, ly \in DomainLens, gpu \in BOOLEAN :
         mg = [at |-> "new", a_domain_len |-> <<lx, ly>>, gpu |-> gpu,
               m_domain |-> <<>>, m_max_level |-> 0,
               m_single_block_level_begin |-> 0, m_num_single_block_levels |-> 0,
               smoothed |-> {}, bottom |-> {}, outcome |-> "none"]

(* MultiGrid::MultiGrid(dx, dy, a_domain) *)
MultiGrid_ctor ==
    /\ mg.at = "new"
    /\ IF mg.a_domain_len[1] % 2 # mg.a_domain_len[2] % 2
       THEN mg' = [mg EXCEPT !.at = "aborted"]
       ELSE LET m_domain == CoarsenLevels(<<FinestDomain(mg.a_domain_len)>>, 0)
                begin == single_block_level_begin(m_domain, mg.gpu)
            IN  mg' = [mg EXCEPT !.at = "constructed",
                                 !.m_domain = m_domain,
                                 !.m_max_level = Len(m_domain) - 1,
                                 !.m_single_block_level_begin = begin,
                                 !.m_num_single_block_levels = Len(m_domain) - begin]
    /\ MGUnchanged

(* the levels (from 0) of m_domain, m_res, m_cor that vcycle and bottomsolve *)
(* index: ilev and ilev+1 below m_single_block_level_begin, and the levels  *)
(* of the bottom solve                                                      *)
LevelsIndexed ==
    {l \in 0..(mg.m_max_level + 2) :
        \/ l < mg.m_single_block_level_begin
        \/ (l >= 1 /\ l - 1 < mg.m_single_block_level_begin)
        \/ l = mg.m_single_block_level_begin}

(* the levels of the single-block bottom solve: all single-block levels in *)
(* bottomsolve_gpu, the level m_single_block_level_begin otherwise          *)
BottomLevels ==
    IF mg.gpu
    THEN mg.m_single_block_level_begin .. mg.m_max_level
    ELSE {mg.m_single_block_level_begin}

(* MultiGrid::vcycle with every level it indexes in m_domain *)
vcycle ==
    /\ mg.at = "constructed"
    /\ \A l \in LevelsIndexed : l <= mg.m_max_level
    /\ mg' = [mg EXCEPT !.at = "cycled",
                        !.smoothed = 0 .. (mg.m_single_block_level_begin - 1),
                        !.bottom = BottomLevels]
    /\ MGUnchanged

(* MultiGrid::vcycle indexing m_domain[m_max_level+1]: the behaviour is    *)
(* undefined, the run traps or goes on with whatever lies there             *)
vcycle_OutOfRange ==
    /\ mg.at = "constructed"
    /\ \E l \in LevelsIndexed : l > mg.m_max_level
    /\ \E outcome \in {"trap", "garbage"} :
         mg' = [mg EXCEPT !.at = "undefined", !.outcome = outcome,
                          !.smoothed = 0 .. (mg.m_single_block_level_begin - 1),
                          !.bottom = BottomLevels]
    /\ MGUnchanged

NextLevels ==
    \/ MultiGrid_ctor
    \/ vcycle
    \/ vcycle_OutOfRange

SpecLevels == InitLevels /\ [][NextLevels]_vars

(* C27: for every slice size the constructor accepts, the hierarchy ends   *)
(* in a coarsest level of at most 32 x 32 = 1024 cells, and the            *)
(* single-block bottom solve works on at least one level and only on       *)
(* levels of at most 1024 cells.                                           *)
C27_BottomSolveOnSmallLevels ==
    /\ mg.at \in {"constructed", "cycled", "undefined"} =>
          BoxVolume(mg.m_domain[mg.m_max_level + 1]) <= 1024
    /\ mg.at \in {"cycled", "undefined"} =>
          /\ mg.bottom # {}
          /\ \A l \in mg.bottom :
                l <= mg.m_max_level /\ BoxVolume(mg.m_domain[l + 1]) <= 1024

(* a slice of 66 by 66 cells has the levels 66 x 66 and 33 x 33; with      *)
(* AMREX_USE_GPU no level is a single-block level and vcycle indexes a     *)
(* third level                                                             *)
C27_FailingInput ==
    /\ mg.at = "undefined"
    /\ mg.a_domain_len = <<66, 66>>
    /\ mg.gpu
    /\ mg.m_max_level = 1
    /\ mg.m_single_block_level_begin = 2
    /\ mg.m_num_single_block_levels = 0
    /\ mg.bottom = {}

(***************************************************************************)
(* SpecSmooth: gsrb_shared_st1_4_uni_v1 on one level, as MultiGrid::vcycle *)
(* launches it in its two legs, against four sweeps of gsrb.  One of the   *)
(* two components is followed.  The reals are the integers modulo the      *)
(* prime FieldPrime, where every quotient the smoother takes exists; dx    *)
(* and dy are 1.                                                           *)
(***************************************************************************)
MaxSeed == 2

FieldPrime == 101

tilesize_x == 64
tilesize_y == 32
gs_niter == 4

InField(x) == x % FieldPrime
Inverse == [x \in 1..(FieldPrime - 1) |->
               CHOOSE y \in 1..(FieldPrime - 1) : (x * y) % FieldPrime = 1]
Quotient(x, y) == (InField(x) * Inverse[InField(y)]) % FieldPrime

(* the remainder of the C++ operator % with divisor 2 *)
CRem2(n) == IF n >= 0 THEN n % 2 ELSE 0 - ((0 - n) % 2)

(* valid_domain_box: the box of cells, the box of nodes without its border *)
ilo_loop(b) == IF b.cell THEN 0 ELSE 1
ihi_loop(b) == IF b.cell THEN b.hi[1] ELSE b.hi[1] - 1
jlo_loop(b) == IF b.cell THEN 0 ELSE 1
jhi_loop(b) == IF b.cell THEN b.hi[2] ELSE b.hi[2] - 1
InLoopBox(b, x, y) ==
    ilo_loop(b) <= x /\ x <= ihi_loop(b) /\ jlo_loop(b) <= y /\ y <= jhi_loop(b)

(* gs1<is_cell_centered>(i, j, n, ilo, jlo, ihi, jhi, phi, rhs, acf, 1, 1): *)
(* the new value of phi(i, j)                                              *)
gs1(b, x, y, phi, rhs, acf) ==
    LET atx == b.cell /\ (x = 0 \/ x = b.hi[1])
        aty == b.cell /\ (y = 0 \/ y = b.hi[2])
        lapx == IF b.cell /\ x = 0 THEN Quotient(4 * phi[x + 1][y], 3)
                ELSE IF b.cell /\ x = b.hi[1] THEN Quotient(4 * phi[x - 1][y], 3)
                ELSE phi[x - 1][y] + phi[x + 1][y]
        lapy == IF b.cell /\ y = 0 THEN Quotient(4 * phi[x][y + 1], 3)
                ELSE IF b.cell /\ y = b.hi[2] THEN Quotient(4 * phi[x][y - 1], 3)
                ELSE phi[x][y - 1] + phi[x][y + 1]
        c0 == acf + 4 + (IF atx THEN 2 ELSE 0) + (IF aty THEN 2 ELSE 0)
    IN  Quotient(lapx + lapy + FieldPrime - rhs, c0)

(* gsrb(icolor, box, phi, rhs, acf, 1, 1, 1): one sweep over the level *)
gsrb(icolor, b, phi, rhs, acf) ==
    [x \in 0..b.hi[1] |-> [y \in 0..b.hi[2] |->
        IF InLoopBox(b, x, y) /\ (x + y + icolor) % 2 = 0
        THEN gs1(b, x, y, phi, rhs[x][y], acf[x][y])
        ELSE phi[x][y]]]

(* edge_offset = niter - !compute_residual *)
edge_offset(compute_residual) == gs_niter - (IF compute_residual THEN 0 ELSE 1)

final_tilesize_x(compute_residual) == tilesize_x - 2 * edge_offset(compute_residual)
final_tilesize_y(compute_residual) == tilesize_y - 2 * edge_offset(compute_residual)

num_blocks_x(b, compute_residual) ==
    (ihi_loop(b) - ilo_loop(b) + 1 + final_tilesize_x(compute_residual) - 1)
        \div final_tilesize_x(compute_residual)
num_blocks_y(b, compute_residual) ==
    (jhi_loop(b) - jlo_loop(b) + 1 + final_tilesize_y(compute_residual) - 1)
        \div final_tilesize_y(compute_residual)

tile_begin_x(b, compute_residual, iblock_x) ==
    iblock_x * final_tilesize_x(compute_residual) - edge_offset(compute_residual) - 1
        + ilo_loop(b)
tile_begin_y(b, compute_residual, iblock_y) ==
    iblock_y * final_tilesize_y(compute_residual) - edge_offset(compute_residual) - 1
        + jlo_loop(b)

(* the rows ithread_y (already doubled) of the threads of column x whose   *)
(* j_loc = j + shift is y in the sweep icolor                              *)
ThreadsUpdating(tby, x, y, icolor) ==
    {ty \in {y - tby - 2, y - tby - 1, y - tby} :
        /\ ty >= 0 /\ ty < tilesize_y /\ ty % 2 = 0
        /\ (tby + 1 + ty) + CRem2(x + tby + 1 + ty + icolor) = y}

(* rhs0_num[nj] and acf_num[nj] of the thread at (i, j) *)
ThreadInput(b, a, x, y, nj) == IF InLoopBox(b, x, y + nj) THEN a[x][y + nj] ELSE 0

(* one pass of the loop over icolor in a block, between two __syncthreads *)
SharedSweep(b, tbx, tby, phi_shared, icolor, rhs, acf) ==
    [x \in tbx..(tbx + tilesize_x + 1) |-> [y \in tby..(tby + tilesize_y + 1) |->
        LET ts == IF x - tbx - 1 >= 0 /\ x - tbx - 1 < tilesize_x /\ InLoopBox(b, x, y)
                  THEN ThreadsUpdating(tby, x, y, icolor) ELSE {}
        IN  IF ts = {} THEN phi_shared[x][y]
            ELSE LET ty == CHOOSE t \in ts : TRUE
                     j == tby + 1 + ty
                     sh == CRem2(x + j + icolor)
                     nj == IF sh # 0 THEN 1 ELSE 0
                 IN  gs1(b, x, y, phi_shared,
                         ThreadInput(b, rhs, x, j, nj), ThreadInput(b, acf, x, j, nj))]]

(* phi_shared of a block after its niter sweeps *)
BlockShared(b, zero_init, compute_residual, iblock_x, iblock_y, rhs, acf, res) ==
    LET tbx == tile_begin_x(b, compute_residual, iblock_x)
        tby == tile_begin_y(b, compute_residual, iblock_y)
        s0 == [x \in tbx..(tbx + tilesize_x + 1) |-> [y \in tby..(tby + tilesize_y + 1) |->
                  IF zero_init THEN 0
                  ELSE IF InLoopBox(b, x, y) THEN res[x][y] ELSE 0]]
        s1 == SharedSweep(b, tbx, tby, s0, 0, rhs, acf)
        s2 == SharedSweep(b, tbx, tby, s1, 1, rhs, acf)
        s3 == SharedSweep(b, tbx, tby, s2, 2, rhs, acf)
    IN  SharedSweep(b, tbx, tby, s3, 3, rhs, acf)

(* the block writes phi_out(x, y): the final test on ithread_x, ithread_y+nj *)
BlockWrites(b, compute_residual, iblock_x, iblock_y, x, y) ==
    LET eo == edge_offset(compute_residual)
        tx == x - tile_begin_x(b, compute_residual, iblock_x) - 1
        ry == y - tile_begin_y(b, compute_residual, iblock_y) - 1
    IN  /\ InLoopBox(b, x, y)
        /\ eo <= tx /\ tx < tilesize_x - eo
        /\ eo <= ry /\ ry < tilesize_y - eo

(* the cells of the global arrays a block reads: the rectangle of its      *)
(* threads for rhs and acf, of its tile for res when the tile is loaded    *)
BlockReads(b, zero_init, compute_residual, iblock_x, iblock_y, array, x, y) ==
    LET tx == x - tile_begin_x(b, compute_residual, iblock_x) - 1
        ry == y - tile_begin_y(b, compute_residual, iblock_y) - 1
    IN  /\ InLoopBox(b, x, y)
        /\ \/ array \in {"rhs", "acf"} /\ tx >= 0 /\ tx < tilesize_x
                                       /\ ry >= 0 /\ ry < tilesize_y
           \/ array = "res" /\ ~zero_init /\ tx >= 0 - 1 /\ tx <= tilesize_x
                                          /\ ry >= 0 - 1 /\ ry <= tilesize_y

(* the global arrays a block writes at (x, y) *)
BlockWritesArray(b, compute_residual, iblock_x, iblock_y, array, x, y) ==
    /\ array = "phi_out" \/ (array = "res" /\ compute_residual)
    /\ BlockWrites(b, compute_residual, iblock_x, iblock_y, x, y)

BlockIds(b, compute_residual) ==
    (0..(num_blocks_x(b, compute_residual) - 1)) \X
    (0..(num_blocks_y(b, compute_residual) - 1))

(* gsrb_shared_st1_4_uni_v1<zero_init, compute_residual, is_cell_centered>: *)
(* phi_out after the launch, and how many blocks have written each cell;   *)
(* a cell no block writes keeps what phi_out held                          *)
gsrb_shared_st1_4_uni_v1(b, zero_init, compute_residual, phi_out, rhs, acf, res) ==
    LET ids == BlockIds(b, compute_residual)
        fin == [id \in ids |->
                   BlockShared(b, zero_init, compute_residual, id[1], id[2], rhs, acf, res)]
    IN  [x \in 0..b.hi[1] |-> [y \in 0..b.hi[2] |->
            LET ws == {id \in ids : BlockWrites(b, compute_residual, id[1], id[2], x, y)}
            IN  [writers |-> Cardinality(ws),
                 val |-> IF ws = {} THEN phi_out[x][y]
                         ELSE fin[CHOOSE id \in ws : TRUE][x][y]]]]

(* the contents of an array of the level, from a seed *)
Pattern(b, seed, k) ==
    [x \in 0..b.hi[1] |-> [y \in 0..b.hi[2] |->
        IF b.cell \/ InLoopBox(b, x, y)
        THEN (seed * (7 * x + 13 * y + 1) + k * x * y) % FieldPrime
        ELSE 0]]

(* the level domains: 4, 58 and 64 cells or 5, 59 and 63 nodes wide, 4 and *)
(* 32 cells or 5 and 31 nodes high (cells and nodes do not mix); a node    *)
(* box has one more node on each side                                      *)
SmoothDomains ==
    {[hi |-> <<lx - 1, ly - 1>>, cell |-> TRUE] : lx \in {4, 58, 64}, ly \in {4, 32}}
    \cup {[hi |-> <<lx + 1, ly + 1>>, cell |-> FALSE] : lx \in {5, 59, 63}, ly \in {5, 31}}

InitSmooth ==
    /\ IdlePipe
    /\ slices = [r \in Ranks |-> AllocData(FALSE)]
    /\ pre = IdlePre
    /\ pcl = IdlePcl
    /\ IdleRest
    /\ \E b \in SmoothDomains, down \in BOOLEAN, seed \in 1..MaxSeed, aseed \in 0..1 :
         mg = [at |-> "launch", domain |-> b, down |-> down, seed |-> seed, aseed |-> aseed,
               out |-> <<>>]

(* the launch of the descending leg, <true, true, .>, or of the ascending  *)
(* leg, <false, false, .>, of MultiGrid::vcycle on the level               *)
SmoothLaunch ==
    /\ mg.at = "launch"
    /\ LET b == mg.domain
           rhs == Pattern(b, mg.seed, 1)
           acf == [x \in 0..b.hi[1] |-> [y \in 0..b.hi[2] |-> (mg.aseed * (x + y)) % 2]]
           res == Pattern(b, mg.seed + 3, 2)
           phi_out == [x \in 0..b.hi[1] |-> [y \in 0..b.hi[2] |-> 0]]
       IN  mg' = [mg EXCEPT !.at = "smoothed",
                            !.out = gsrb_shared_st1_4_uni_v1(b, mg.down, mg.down, phi_out,
                                                             rhs, acf, res)]
    /\ MGUnchanged

NextSmooth == SmoothLaunch

SpecSmooth == InitSmooth /\ [][NextSmooth]_vars

(* four sweeps of gsrb, colours 0 to 3, from the initial guess of the leg: *)
(* zero in the descending leg, the array res in the ascending leg          *)
FourGlobalSweeps ==
    LET b == mg.domain
        rhs == Pattern(b, mg.seed, 1)
        acf == [x \in 0..b.hi[1] |-> [y \in 0..b.hi[2] |-> (mg.aseed * (x + y)) % 2]]
        res == Pattern(b, mg.seed + 3, 2)
        p0 == [x \in 0..b.hi[1] |-> [y \in 0..b.hi[2] |->
                  IF mg.down \/ ~InLoopBox(b, x, y) THEN 0 ELSE res[x][y]]]
    IN  gsrb(3, b, gsrb(2, b, gsrb(1, b, gsrb(0, b, p0, rhs, acf), rhs, acf), rhs, acf),
             rhs, acf)

(* C28: on every level domain and in both legs the tiled smoother writes   *)
(* to every valid cell the value four global red-black sweeps produce from *)
(* the same initial guess; every valid cell is written by exactly one      *)
(* block and no block reads what another block writes in the launch.       *)
C28_TiledEqualsFourSweeps ==
    mg.at = "smoothed" =>
       LET b == mg.domain
           ref == FourGlobalSweeps
           ids == BlockIds(b, mg.down)
       IN  /\ \A x \in 0..b.hi[1], y \in 0..b.hi[2] :
                 IF InLoopBox(b, x, y)
                 THEN mg.out[x][y].writers = 1 /\ mg.out[x][y].val = ref[x][y]
                 ELSE mg.out[x][y].writers = 0
           /\ \A id1 \in ids, id2 \in ids, array \in {"rhs", "acf", "res", "phi_out"} :
                 \A x \in {ilo_loop(b), ihi_loop(b)} \cup
                          {tile_begin_x(b, mg.down, k) + d : k \in 0..(num_blocks_x(b, mg.down) - 1),
                                                           d \in {0, 1, tilesize_x, tilesize_x + 1}},
                    y \in {jlo_loop(b), jhi_loop(b)} \cup
                          {tile_begin_y(b, mg.down, k) + d : k \in 0..(num_blocks_y(b, mg.down) - 1),
                                                           d \in {0, 1, tilesize_y, tilesize_y + 1}} :
                    ~(id1 # id2
                      /\ BlockReads(b, mg.down, mg.down, id1[1], id1[2], array, x, y)
                      /\ BlockWritesArray(b, mg.down, id2[1], id2[2], array, x, y))

(* the ascending leg on 64 by 32 cells: the cell (0, 0) is not updated in  *)
(* the sweep of colour 0, where (i + j + icolor) % 2 is -1 for the thread  *)
(* at i = 0, j = -1, and its value after the launch is not the one of the  *)
(* four sweeps                                                             *)
C28_FailingInput ==
    /\ mg.at = "smoothed"
    /\ ~mg.down
    /\ mg.domain = [hi |-> <<63, 31>>, cell |-> TRUE]
    /\ Cardinality(BlockIds(mg.domain, mg.down)) = 4
    /\ mg.out[0][0].writers = 1
    /\ mg.out[0][0].val # FourGlobalSweeps[0][0]

(* in the descending leg and on node boxes the tiled smoother agrees with  *)
(* the four sweeps                                                         *)
C28_HoldsOffTheAscendingCellLeg ==
    (mg.at = "smoothed" /\ (mg.down \/ ~mg.domain.cell)) => C28_TiledEqualsFourSweeps

(* in the ascending leg on cell boxes it agrees away from the corner       *)
C28_AscendingCellLegOffTheCorner ==
    (mg.at = "smoothed" /\ ~mg.down /\ mg.domain.cell) =>
       LET b == mg.domain
           ref == FourGlobalSweeps
       IN  \A x \in 0..b.hi[1], y \in 0..b.hi[2] :
              /\ mg.out[x][y].writers = 1
              /\ x + y >= gs_niter => mg.out[x][y].val = ref[x][y]

(***************************************************************************)
(* SpecExpand: FFTPoissonSolverDirichletExpanded::SolvePoissonEquation,    *)
(* the two expansions of a solve into m_expanded_position_array.  The      *)
(* arrays are indexed as in the code, from the small end lo of the staging *)
(* box.  The transform itself is not computed: what it leaves in the       *)
(* spectral array is drawn from the sources of SourceSeeds.                *)
(***************************************************************************)
MaxSourceLen == 3
MaxSolves == 2

SourceSeeds == {1, 0 - 2, 3}
SmallEnds == {<<0, 0>>, <<0 - 1, 2>>}

(* a source of nx by ny values on the box from lo, all different and not 0 *)
SourceArray(nx, ny, lo, seed) ==
    [i \in lo[1]..(lo[1] + nx - 1) |-> [j \in lo[2]..(lo[2] + ny - 1) |->
        seed * (1 + (i - lo[1]) + nx * (j - lo[2]))]]

(* a faulty variant: the lower left quadrant is not mirrored *)
ExpandWrites_NotMirrored(src, nx, ny, lo, i, j) ==
    {<<1, <<i + 1, j + 1>>, src[i][j]>>,
     <<2, <<i + 1, j + ny + 2>>, 0 - src[i][j]>>,
     <<3, <<i + nx + 2, j + 1>>, 0 - src[nx - 1 - i + 2 * lo[1]][j]>>,
     <<4, <<i + nx + 2, j + ny + 2>>, src[nx - 1 - i + 2 * lo[1]][ny - 1 - j + 2 * lo[2]]>>}

(* the four assignments of the thread (i, j) of ExpandR2R, as              *)
(* <<quadrant, index in dst, value>>                                       *)
ExpandWrites(src, nx, ny, lo, i, j) ==
    {<<1, <<i + 1, j + 1>>, src[i][j]>>,
     <<2, <<i + 1, j + ny + 2>>, 0 - src[i][ny - 1 - j + 2 * lo[2]]>>,
     <<3, <<i + nx + 2, j + 1>>, 0 - src[nx - 1 - i + 2 * lo[1]][j]>>,
     <<4, <<i + nx + 2, j + ny + 2>>, src[nx - 1 - i + 2 * lo[1]][ny - 1 - j + 2 * lo[2]]>>}

(* ExpandR2R(dst, src): dst after the ParallelFor over the box of src, and *)
(* the number of assignments to each of its cells.  Threads run in no      *)
(* fixed order: where several assign a cell, the quadrant that comes last  *)
(* in order leaves its value                                               *)
ExpandR2R(dst, src, nx, ny, lo, order) ==
    LET all == UNION {{<<w, <<i, j>>>> : w \in ExpandWrites(src, nx, ny, lo, i, j)} :
                         <<i, j>> \in (lo[1]..(lo[1] + nx - 1)) \X (lo[2]..(lo[2] + ny - 1))}
        To(p, q) == {t \in all : t[1][2] = <<p, q>>}
        LastWrite(ts) == CHOOSE t \in ts : \A u \in ts : order[u[1][1]] <= order[t[1][1]]
    IN  [p \in DOMAIN dst |-> [q \in DOMAIN dst[p] |->
            [val |-> IF To(p, q) = {} THEN dst[p][q].val ELSE LastWrite(To(p, q))[1][3],
             writes |-> Cardinality(To(p, q))]]]

(* m_expanded_position_array after define: resized to 2nx+2 by 2ny+2 from *)
(* lo and set to 0; the plan of the transform is made on the zeroed array  *)
ExpandedZero(nx, ny, lo) ==
    [p \in lo[1]..(lo[1] + 2 * nx + 1) |-> [q \in lo[2]..(lo[2] + 2 * ny + 1) |->
        [val |-> 0, writes |-> 0]]]

InitExpand ==
    /\ IdlePipe
    /\ slices = [r \in Ranks |-> AllocData(FALSE)]
    /\ pre = IdlePre
    /\ pcl = IdlePcl
    /\ IdleRest
    /\ \E nx \in 1..MaxSourceLen, ny \in 1..MaxSourceLen, lo \in SmallEnds,
          seed \in SourceSeeds :
         mg = [at |-> "staged", nx |-> nx, ny |-> ny, lo |-> lo, solves |-> 0,
               m_stagingArea |-> SourceArray(nx, ny, lo, seed),
               m_tmpSpectralField |-> SourceArray(nx, ny, lo, 0),
               src |-> SourceArray(nx, ny, lo, 0),
               m_expanded_position_array |-> ExpandedZero(nx, ny, lo)]

(* ExpandR2R(m_expanded_position_array, m_stagingArea[0]) *)
ExpandStaging ==
    /\ mg.at = "staged"
    /\ \E order \in Permutations(1..4) :
         mg' = [mg EXCEPT !.at = "expanded",
                          !.src = mg.m_stagingArea,
                          !.m_expanded_position_array =
                              ExpandR2R(@, mg.m_stagingArea, mg.nx, mg.ny, mg.lo, order)]
    /\ MGUnchanged

(* m_fft.Execute(); ShrinkC2R(m_tmpSpectralField[0], ...); the product     *)
(* with m_eigenvalue_matrix.  The transform is out of place and leaves the *)
(* expanded array as it is                                                 *)
TransformToSpectral ==
    /\ mg.at = "expanded"
    /\ \E seed \in SourceSeeds :
         mg' = [mg EXCEPT !.at = "spectral",
                          !.m_tmpSpectralField = SourceArray(mg.nx, mg.ny, mg.lo, seed)]
    /\ MGUnchanged

(* ExpandR2R(m_expanded_position_array, m_tmpSpectralField[0]) *)
ExpandSpectral ==
    /\ mg.at = "spectral"
    /\ \E order \in Permutations(1..4) :
         mg' = [mg EXCEPT !.at = "expanded2",
                          !.src = mg.m_tmpSpectralField,
                          !.m_expanded_position_array =
                              ExpandR2R(@, mg.m_tmpSpectralField, mg.nx, mg.ny, mg.lo, order)]
    /\ MGUnchanged

(* m_fft.Execute(); ShrinkC2R(m_stagingArea[0], ...); the copy to lhs_mf.  *)
(* The caller fills the staging area again before the next solve           *)
TransformToReal ==
    /\ mg.at = "expanded2"
    /\ mg.solves < MaxSolves
    /\ \E seed \in SourceSeeds :
         mg' = [mg EXCEPT !.at = "staged",
                          !.solves = @ + 1,
                          !.m_stagingArea = SourceArray(mg.nx, mg.ny, mg.lo, seed)]
    /\ MGUnchanged

NextExpand == ExpandStaging \/ TransformToSpectral \/ ExpandSpectral \/ TransformToReal

SpecExpand == InitExpand /\ [][NextExpand]_vars

(* the expanded array and the source of the last expansion by the local    *)
(* indices p in 0..2nx+1, q in 0..2ny+1 of the claim                       *)
ExpandedAt(p, q) == mg.m_expanded_position_array[mg.lo[1] + p][mg.lo[2] + q]
ExpandedSource(p, q) == mg.src[mg.lo[1] + p][mg.lo[2] + q]
OnZeroLine(p, q) == p \in {0, mg.nx + 1} \/ q \in {0, mg.ny + 1}

(* C29: after every call of ExpandR2R the expanded array is the odd        *)
(* extension of the source: the source on 1..nx by 1..ny, zero on the      *)
(* lines p in {0, nx+1} and q in {0, ny+1}, and odd about these lines      *)
(* elsewhere; each cell off the zero lines is assigned exactly once in the *)
(* call and the zero lines never, in the second expansion of a solve as in *)
(* the first.                                                              *)
C29_OddExtension ==
    mg.at \in {"expanded", "expanded2"} =>
       /\ \A p \in 1..mg.nx, q \in 1..mg.ny :
             ExpandedAt(p, q).val = ExpandedSource(p - 1, q - 1)
       /\ \A p \in 0..(2 * mg.nx + 1), q \in 0..(2 * mg.ny + 1) :
             IF OnZeroLine(p, q)
             THEN ExpandedAt(p, q).val = 0 /\ ExpandedAt(p, q).writes = 0
             ELSE /\ ExpandedAt(2 * mg.nx + 2 - p, q).val = 0 - ExpandedAt(p, q).val
                  /\ ExpandedAt(p, 2 * mg.ny + 2 - q).val = 0 - ExpandedAt(p, q).val
                  /\ ExpandedAt(p, q).writes = 1

(* the second expansion of the second solve of a 3 by 2 source on a box    *)
(* that does not start at 0, after a first expansion of another source     *)
C29_Witness ==
    /\ mg.at = "expanded2"
    /\ mg.solves = 1
    /\ mg.nx = 3 /\ mg.ny = 2
    /\ mg.lo = <<0 - 1, 2>>
    /\ mg.src # mg.m_stagingArea
    /\ ExpandedAt(1, 1).val = ExpandedSource(0, 0)
    /\ ExpandedAt(1, 1).val # 0
    /\ ExpandedAt(1, 2 * mg.ny + 1).val = 0 - ExpandedAt(1, 1).val
    /\ ExpandedAt(2 * mg.nx + 1, 2 * mg.ny + 1).val = ExpandedAt(1, 1).val

====
